---- MODULE Spec2Model ----
(***************************************************************************)
(* webwraith: the CSS grammar parser (src/css.rs over the scanning trait   *)
(* of src/parser.rs) and the cascade resolver (src/style.rs over the       *)
(* document nodes of src/dom.rs).                                          *)
(*                                                                         *)
(* A text is a sequence of UTF-8 bytes.  An ASCII character is one byte,   *)
(* written as a one-character string; the one non-ASCII character of the   *)
(* model, NonAscii, is the byte pair <<LeadByte, ContByte>>.  Positions    *)
(* are byte offsets counted from 0, as in the source.                      *)
(***************************************************************************)
EXTENDS Integers, Sequences, FiniteSets, TLC

VARIABLES input, position, pc, selector, selectors, declarations, rules,
          outcome, error, stylesheet, root, styled, call, result, markup

vars == <<input, position, pc, selector, selectors, declarations, rules,
          outcome, error, stylesheet, root, styled, call, result, markup>>

(***************************************************************************)
(* Characters                                                              *)
(***************************************************************************)
LeadByte == "xC3"
ContByte == "xA9"
NonAscii == "U+00E9"

LowerSeq == <<"a", "b", "c", "d", "e", "f", "g", "h", "i", "j", "k", "l", "m",
             "n", "o", "p", "q", "r", "s", "t", "u", "v", "w", "x", "y", "z">>
UpperSeq == <<"A", "B", "C", "D", "E", "F", "G", "H", "I", "J", "K", "L", "M",
             "N", "O", "P", "Q", "R", "S", "T", "U", "V", "W", "X", "Y", "Z">>
Lower == {LowerSeq[i] : i \in 1..Len(LowerSeq)}
Upper == {UpperSeq[i] : i \in 1..Len(UpperSeq)}
Digits == {"0", "1", "2", "3", "4", "5", "6", "7", "8", "9"}

\* char::is_whitespace, on the characters of the model
is_whitespace == {" ", "\t", "\n"}

\* css.rs valid_identifier_char
valid_identifier_char == Lower \cup Upper \cup Digits \cup {"-", "_"}

\* the closure of parse_float: matches!(c, '0'..='9' | '.')
float_char == Digits \cup {"."}

\* the characters of the model: a closure |c| c != x is Characters \ {x}
Punctuation ==
    {"<", ">", "/", "=", "\"", "'", "#", ".", "*", ",", "{", "}", ":", ";",
     "+", "%", "!", "?"}
Characters ==
    Lower \cup Upper \cup Digits \cup Punctuation \cup is_whitespace
        \cup {"-", "_", NonAscii}

\* char::len_utf8
len_utf8(c) == IF c = NonAscii THEN 2 ELSE 1

(***************************************************************************)
(* Results: Ok(value), Err(message), or a panic that unwinds the call.     *)
(***************************************************************************)
Ok(v, p) == [tag |-> "Ok", val |-> v, pos |-> p, msg |-> ""]
Err(m, p) == [tag |-> "Err", val |-> <<>>, pos |-> p, msg |-> m]
Panic(m, p) == [tag |-> "Panic", val |-> <<>>, pos |-> p, msg |-> m]

\* Result::unwrap: an Err becomes a panic
unwrap(r) == IF r.tag = "Err" THEN Panic(r.msg, r.pos) ELSE r

\* the operator `?` and the flow of a panic: a result that is not Ok ends
\* the function with that result, an Ok result goes on to Continue; done is
\* the result r, computed once
Then(r, Continue(_)) ==
    CHOOSE next \in {IF done.tag = "Ok" THEN Continue(done) ELSE done : done \in {r}} :
        TRUE

(***************************************************************************)
(* src/parser.rs: the scanning primitives                                  *)
(***************************************************************************)
\* str::is_char_boundary
is_char_boundary(in, p) ==
    \/ p = 0
    \/ p = Len(in)
    \/ p < Len(in) /\ in[p + 1] # ContByte

eof(in, p) == p >= Len(in)

\* the character that starts at byte offset p (p < Len(in), on a boundary)
CharAt(in, p) == IF in[p + 1] = LeadByte THEN NonAscii ELSE in[p + 1]

next_char(in, p) ==
    IF eof(in, p) THEN Err("No more characters in input string", p)
    ELSE IF ~is_char_boundary(in, p) THEN Panic("byte index is not a char boundary", p)
    ELSE Ok(CharAt(in, p), p)

\* consume_char that advances by one byte whatever the character
consume_char_one_byte(in, p) ==
    IF p > Len(in) \/ ~is_char_boundary(in, p)
    THEN Panic("byte index is not a char boundary", p)
    ELSE IF p = Len(in) THEN Err("No more characters in the input string", p)
    ELSE Ok(CharAt(in, p), p + 1)

consume_char(in, p) ==
    IF p > Len(in) \/ ~is_char_boundary(in, p)
    THEN Panic("byte index is not a char boundary", p)
    ELSE IF p = Len(in) THEN Err("No more characters in the input string", p)
    ELSE Ok(CharAt(in, p), p + len_utf8(CharAt(in, p)))

\* consume_while that also consumes the character that ends the run
RECURSIVE consume_while_one_more(_, _, _)
consume_while_one_more(in, p, condition) ==
    LET n == next_char(in, p)
        c == consume_char(in, p)
    IN IF n.tag = "Panic" THEN n
       ELSE IF n.tag = "Err" THEN Ok(<<>>, p)
       ELSE IF n.val \in condition
       THEN LET rest == consume_while_one_more(in, c.pos, condition)
            IN IF rest.tag = "Ok" THEN Ok(<<c.val>> \o rest.val, rest.pos) ELSE rest
       ELSE Ok(<<>>, c.pos)

RECURSIVE consume_while(_, _, _)
consume_while(in, p, condition) ==
    LET n == next_char(in, p) IN
    IF n.tag = "Ok" /\ n.val \in condition
    THEN Then(consume_char(in, p), LAMBDA c :
         Then(consume_while(in, c.pos, condition), LAMBDA rest :
         Ok(<<c.val>> \o rest.val, rest.pos)))
    ELSE IF n.tag = "Panic" THEN n
    ELSE Ok(<<>>, p)

\* consume_whitespace that skips one whitespace character at most
consume_whitespace_once(in, p) ==
    LET n == next_char(in, p) IN
    IF n.tag = "Panic" THEN n
    ELSE IF n.tag = "Ok" /\ n.val \in is_whitespace
    THEN Ok(<<n.val>>, consume_char(in, p).pos)
    ELSE Ok(<<>>, p)

consume_whitespace(in, p) == consume_while(in, p, is_whitespace)

\* Parser::starts_with: the bytes from the position start with the bytes s
starts_with(in, p, s) ==
    IF eof(in, p) THEN Err("No more characters in input string", p)
    ELSE IF ~is_char_boundary(in, p) THEN Panic("byte index is not a char boundary", p)
    ELSE Ok(/\ p + Len(s) <= Len(in)
            /\ \A i \in 1..Len(s) : in[p + i] = s[i], p)

(***************************************************************************)
(* src/css.rs: values                                                      *)
(***************************************************************************)
None == [some |-> FALSE]
Some(v) == [some |-> TRUE, v |-> v]

Keyword(s) == [type |-> "Keyword", s |-> s]
Length(f, u) == [type |-> "Length", f |-> f, unit |-> u]
ColorValue(r, g, b, a) == [type |-> "ColorValue", r |-> r, g |-> g, b |-> b, a |-> a]

parse_identifier(in, p) == consume_while(in, p, valid_identifier_char)

DigitVal(c) ==
    CASE c = "0" -> 0 [] c = "1" -> 1 [] c = "2" -> 2 [] c = "3" -> 3
      [] c = "4" -> 4 [] c = "5" -> 5 [] c = "6" -> 6 [] c = "7" -> 7
      [] c = "8" -> 8 [] c = "9" -> 9
      [] c \in {"a", "A"} -> 10 [] c \in {"b", "B"} -> 11
      [] c \in {"c", "C"} -> 12 [] c \in {"d", "D"} -> 13
      [] c \in {"e", "E"} -> 14 [] c \in {"f", "F"} -> 15

HexDigits == Digits \cup {"a", "b", "c", "d", "e", "f", "A", "B", "C", "D", "E", "F"}

RECURSIVE DigitsValue(_, _)
\* the number written by the digit string s in the given radix
DigitsValue(s, radix) ==
    IF s = <<>> THEN 0
    ELSE DigitsValue(SubSeq(s, 1, Len(s) - 1), radix) * radix + DigitVal(s[Len(s)])

\* str::parse::<f32> on a string of digits and '.' that starts with a digit:
\* it is a number when it holds at most one '.'.  The value is kept as
\* <<mantissa, number of fraction digits>> with trailing fraction zeros
\* dropped, so that "1.50" and "1.5" are the same number.
RECURSIVE Normalize(_)
Normalize(f) ==
    IF f[2] > 0 /\ f[1] % 10 = 0 THEN Normalize(<<f[1] \div 10, f[2] - 1>>) ELSE f

parse_f32(s) ==
    LET dots == {i \in 1..Len(s) : s[i] = "."} IN
    IF s = <<>> \/ Cardinality(dots) > 1 THEN Err("invalid float literal", 0)
    ELSE IF dots = {} THEN Ok(<<DigitsValue(s, 10), 0>>, 0)
    ELSE LET d == CHOOSE i \in dots : TRUE
             digs == SubSeq(s, 1, d - 1) \o SubSeq(s, d + 1, Len(s))
         IN Ok(Normalize(<<DigitsValue(digs, 10), Len(s) - d>>), 0)

parse_float(in, p) ==
    Then(consume_while(in, p, float_char), LAMBDA s :
    LET f == parse_f32(s.val) IN
    IF f.tag = "Ok" THEN Ok(f.val, s.pos) ELSE Panic(f.msg, s.pos))

\* char::to_ascii_lowercase
to_ascii_lowercase(c) ==
    IF c \in Upper THEN LowerSeq[CHOOSE i \in 1..Len(UpperSeq) : UpperSeq[i] = c] ELSE c

\* parse_unit that compares the identifier as written
parse_unit_case_sensitive(in, p) ==
    Then(parse_identifier(in, p), LAMBDA ident :
    IF ident.val = <<"p", "x">>
    THEN Ok("Px", ident.pos)
    ELSE Err("unrecognized unit", ident.pos))

parse_unit(in, p) ==
    Then(parse_identifier(in, p), LAMBDA ident :
    IF [i \in 1..Len(ident.val) |-> to_ascii_lowercase(ident.val[i])] = <<"p", "x">>
    THEN Ok("Px", ident.pos)
    ELSE Err("unrecognized unit", ident.pos))

parse_length(in, p) ==
    Then(unwrap(parse_float(in, p)), LAMBDA f :
    Then(parse_unit(in, f.pos), LAMBDA u :
    Ok(Length(f.val, u.val), u.pos)))

\* u8::from_str_radix(s, 16) on the two bytes s: an optional '+' sign, then
\* at least one hexadecimal digit
from_str_radix(s) ==
    LET digs == IF s[1] = "+" THEN <<s[2]>> ELSE s IN
    IF \A i \in 1..Len(digs) : digs[i] \in HexDigits
    THEN Ok(DigitsValue(digs, 16), 0)
    ELSE Err("invalid digit found in string", 0)

\* parse_hex_pair that moves the position by 2 before it slices the input
parse_hex_pair_unchecked(in, p) ==
    IF p + 2 > Len(in) \/ ~is_char_boundary(in, p) \/ ~is_char_boundary(in, p + 2)
    THEN Panic("byte index out of range or not a char boundary", p + 2)
    ELSE LET v == from_str_radix(SubSeq(in, p + 1, p + 2)) IN
         IF v.tag = "Ok" THEN Ok(v.val, p + 2) ELSE Panic(v.msg, p + 2)

\* the position moves by 2 before the pair is converted
parse_hex_pair(in, p) ==
    IF p + 2 > Len(in) \/ ~is_char_boundary(in, p) \/ ~is_char_boundary(in, p + 2)
    THEN Panic("byte index out of range or not a char boundary", p)
    ELSE LET v == from_str_radix(SubSeq(in, p + 1, p + 2)) IN
         IF v.tag = "Ok" THEN Ok(v.val, p + 2) ELSE Panic(v.msg, p + 2)

parse_color(in, p) ==
    Then(consume_char(in, p), LAMBDA h :
    IF h.val # "#" THEN Panic("assertion failed: '#'", h.pos) ELSE
    Then(parse_hex_pair(in, h.pos), LAMBDA r :
    Then(parse_hex_pair(in, r.pos), LAMBDA g :
    Then(parse_hex_pair(in, g.pos), LAMBDA b :
    Ok(ColorValue(r.val, g.val, b.val, 255), b.pos)))))

parse_value(in, p) ==
    LET n == next_char(in, p) IN
    IF n.tag = "Panic" THEN n
    ELSE IF n.tag = "Ok" /\ n.val \in Digits THEN parse_length(in, p)
    ELSE IF n.tag = "Ok" /\ n.val = "#" THEN parse_color(in, p)
    ELSE Then(parse_identifier(in, p), LAMBDA ident :
         Ok(Keyword(ident.val), ident.pos))

Declaration(n, v) == [name |-> n, value |-> v]

parse_declaration(in, p) ==
    Then(unwrap(parse_identifier(in, p)), LAMBDA name :
    Then(consume_whitespace(in, name.pos), LAMBDA w1 :
    Then(consume_char(in, w1.pos), LAMBDA colon :
    IF colon.val # ":" THEN Panic("assertion failed: ':'", colon.pos) ELSE
    Then(consume_whitespace(in, colon.pos), LAMBDA w2 :
    Then(unwrap(parse_value(in, w2.pos)), LAMBDA v :
    Then(consume_whitespace(in, v.pos), LAMBDA w3 :
    Then(consume_char(in, w3.pos), LAMBDA semi :
    IF semi.val # ";" THEN Panic("assertion failed: ';'", semi.pos) ELSE
    Ok(Declaration(name.val, v.val), semi.pos))))))))

(***************************************************************************)
(* src/css.rs: selectors and specificity                                   *)
(***************************************************************************)
SimpleSelector(t, i, c) == [tag_name |-> t, id |-> i, class |-> c]

\* Selector::Simple, the only variant
Simple(s) == [variant |-> "Simple", simple |-> s]

\* Option::iter().count()
OptionCount(o) == IF o.some THEN 1 ELSE 0

\* specificity that counts the class component once, however many classes
specificity_class_once(sel) ==
    LET simple == sel.simple
        a == OptionCount(simple.id)
        b == IF simple.class = <<>> THEN 0 ELSE 1
        c == OptionCount(simple.tag_name)
    IN <<a, b, c>>

specificity(sel) ==
    LET simple == sel.simple
        a == OptionCount(simple.id)
        b == Len(simple.class)
        c == OptionCount(simple.tag_name)
    IN <<a, b, c>>

\* Ord on (usize, usize, usize): a.cmp(&b) = Less
SpecificityLess(a, b) ==
    \/ a[1] < b[1]
    \/ a[1] = b[1] /\ a[2] < b[2]
    \/ a[1] = b[1] /\ a[2] = b[2] /\ a[3] < b[3]

\* core::cmp::Reverse: the key whose order is the reverse of k's order
Reverse(k) == <<0 - k[1], 0 - k[2], 0 - k[3]>>

\* the elements of s from last to first
ReverseSeq(s) == [n \in 1..Len(s) |-> s[Len(s) + 1 - n]]

\* slice::sort_by and slice::sort_by_key: the stable sort of s by ascending
\* keys[n], the key of s[n]; each element is inserted after the elements
\* already placed whose key is not greater
\* (the slice, the keys, the elements placed so far and the final order are
\* each computed once: elems, ks, p and final range over one value)
StableSort(s, keys) ==
    CHOOSE sorted \in
        {LET Insert(placed, n) ==
                 CHOOSE next \in
                     {LET k == Cardinality({j \in 1..Len(p) :
                                             ~SpecificityLess(ks[n], ks[p[j]])})
                      IN SubSeq(p, 1, k) \o <<n>> \o SubSeq(p, k + 1, Len(p)) :
                      p \in {placed}} : TRUE
             order[n \in 0..Len(elems)] ==
                 IF n = 0 THEN <<>> ELSE Insert(order[n - 1], n)
         IN CHOOSE out \in {[n \in 1..Len(elems) |-> elems[final[n]]] :
                              final \in {order[Len(elems)]}} : TRUE :
         elems \in {s}, ks \in {keys}} : TRUE

\* parse_selectors without its sort: the selectors stay in source order
SortSelectorsNone(sels) == sels

\* parse_selectors with a sort that is not stable: selectors of equal
\* specificity end in the reverse of their source order
SortSelectorsUnstable(sels) ==
    ReverseSeq(StableSort(sels, [n \in 1..Len(sels) |-> specificity(sels[n])]))

\* selectors.sort_by_key(|b| Reverse(b.specificity()))
SortSelectors(sels) ==
    StableSort(sels, [n \in 1..Len(sels) |-> Reverse(specificity(sels[n]))])

\* a rule that keeps one declaration of each name, the first
RuleOfDistinctNames(s, d) ==
    LET first == {j \in 1..Len(d) : \A i \in 1..(j - 1) : d[i].name # d[j].name}
        kept[j \in 0..Len(d)] ==
            IF j = 0 THEN <<>>
            ELSE IF j \in first THEN Append(kept[j - 1], d[j]) ELSE kept[j - 1]
    IN [selectors |-> s, declarations |-> kept[Len(d)]]

Rule(s, d) == [selectors |-> s, declarations |-> d]

Stylesheet(r) == [rules |-> r]

(***************************************************************************)
(* src/dom.rs: document nodes                                              *)
(***************************************************************************)
Node(c, t) == [children |-> c, node_type |-> t]

Text(data) == [kind |-> "Text", data |-> data]
Element(name, attrs) == [kind |-> "Element", tag_name |-> name, attributes |-> attrs]
Comment(data) == [kind |-> "Comment", data |-> data]

\* dom::text, dom::elem, dom::comment
text(data) == Node(<<>>, Text(data))
elem(name, attrs, children) == Node(children, Element(name, attrs))
comment(data) == Node(<<>>, Comment(data))

\* ElementData::id
id(e) == IF "id" \in DOMAIN e.attributes THEN Some(e.attributes["id"]) ELSE None

\* str::split(sep) collected into a set: the pieces between consecutive
\* separators, the empty pieces included
split(s, sep) ==
    LET cuts == {0, Len(s) + 1} \cup {i \in 1..Len(s) : s[i] = sep}
    IN {SubSeq(s, a + 1, b - 1) :
            <<a, b>> \in {ab \in cuts \X cuts :
                            /\ ab[1] < ab[2]
                            /\ ~\E m \in cuts : ab[1] < m /\ m < ab[2]}}

\* ElementData::classes
classes(e) ==
    IF "class" \in DOMAIN e.attributes THEN split(e.attributes["class"], " ") ELSE {}

(***************************************************************************)
(* src/style.rs: selector matching and the cascade                         *)
(***************************************************************************)
\* matching that lets an element with no id attribute pass the id check
matches_simple_selector_absent_id(e, sel) ==
    IF sel.tag_name.some /\ e.tag_name # sel.tag_name.v THEN FALSE
    ELSE IF sel.id.some /\ id(e).some /\ id(e) # Some(sel.id.v) THEN FALSE
    ELSE IF \E i \in 1..Len(sel.class) : sel.class[i] \notin classes(e) THEN FALSE
    ELSE TRUE

matches_simple_selector(e, sel) ==
    IF sel.tag_name.some /\ e.tag_name # sel.tag_name.v THEN FALSE
    ELSE IF sel.id.some /\ id(e) # Some(sel.id.v) THEN FALSE
    ELSE IF \E i \in 1..Len(sel.class) : sel.class[i] \notin classes(e) THEN FALSE
    ELSE TRUE

matches(e, sel) == matches_simple_selector(e, sel.simple)

\* match_rule that records the specificity of the rule's first selector
\* instead of the first selector that matches
match_rule_first_selector(e, rule) ==
    LET hits == {i \in 1..Len(rule.selectors) : matches(e, rule.selectors[i])} IN
    IF hits = {} THEN None
    ELSE Some(<<specificity(rule.selectors[1]), rule>>)

\* Iterator::find: the first selector of the rule that matches, if any
match_rule(e, rule) ==
    LET hits == {i \in 1..Len(rule.selectors) : matches(e, rule.selectors[i])} IN
    IF hits = {} THEN None
    ELSE LET first == CHOOSE i \in hits : \A j \in hits : i <= j
         IN Some(<<specificity(rule.selectors[first]), rule>>)

\* matching_rules with no filter: every rule of the stylesheet, under the
\* specificity of its first selector
matching_rules_unfiltered(e, sheet) ==
    [k \in 1..Len(sheet.rules) |->
        <<specificity(sheet.rules[k].selectors[1]), sheet.rules[k]>>]

\* filter_map over the rules in stylesheet order
matching_rules(e, sheet) ==
    LET collected[i \in 0..Len(sheet.rules)] ==
            IF i = 0 THEN <<>>
            ELSE LET m == match_rule(e, sheet.rules[i]) IN
                 IF m.some THEN Append(collected[i - 1], m.v) ELSE collected[i - 1]
    IN collected[Len(sheet.rules)]

\* HashMap::insert
insert(values, name, value) ==
    [n \in DOMAIN values \cup {name} |-> IF n = name THEN value ELSE values[n]]

EmptyMap == [n \in {} |-> 0]

\* specified_values without its sort: the rules stay in stylesheet order
SortMatchedRulesNone(matched) == matched

\* specified_values with a sort that is not stable: rules of equal
\* specificity end in the reverse of their stylesheet order
SortMatchedRulesUnstable(matched) ==
    ReverseSeq(StableSort(matched, [n \in 1..Len(matched) |-> Reverse(matched[n][1])]))

\* rules.sort_by(|&(a, _), &(b, _)| a.cmp(&b))
SortMatchedRules(matched) ==
    StableSort(matched, [n \in 1..Len(matched) |-> matched[n][1]])

\* specified_values that goes through the declarations of a rule from the
\* last to the first
specified_values_backwards(e, sheet) ==
    LET sorted == SortMatchedRules(matching_rules(e, sheet))
        apply_rule(values, rule) ==
            LET n == Len(rule.declarations)
                acc[i \in 0..n] ==
                    IF i = 0 THEN values
                    ELSE insert(acc[i - 1], rule.declarations[n + 1 - i].name,
                                rule.declarations[n + 1 - i].value)
            IN acc[n]
        values[i \in 0..Len(sorted)] ==
            IF i = 0 THEN EmptyMap ELSE apply_rule(values[i - 1], sorted[i][2])
    IN values[Len(sorted)]

specified_values(e, sheet) ==
    LET sorted == SortMatchedRules(matching_rules(e, sheet))
        apply_rule(values, rule) ==
            LET acc[i \in 0..Len(rule.declarations)] ==
                    IF i = 0 THEN values
                    ELSE insert(acc[i - 1], rule.declarations[i].name,
                                rule.declarations[i].value)
            IN acc[Len(rule.declarations)]
        values[i \in 0..Len(sorted)] ==
            IF i = 0 THEN EmptyMap ELSE apply_rule(values[i - 1], sorted[i][2])
    IN values[Len(sorted)]

\* what style_tree gives its caller: a styled node, or the panic of todo!()
Returned(v) == [tag |-> "Ok", val |-> v]
Unwound(m) == [tag |-> "Panic", msg |-> m]

\* a StyledNode; its node is a reference to a node of the document, kept
\* as the path of child indices from the root to that node
StyledNode(n, v, c) == [node |-> n, specified_values |-> v, children |-> c]

\* StyledNode::value
value(sn, name) ==
    IF name \in DOMAIN sn.specified_values THEN Some(sn.specified_values[name])
    ELSE None

\* str::to_ascii_lowercase
str_to_ascii_lowercase(s) == [i \in 1..Len(s) |-> to_ascii_lowercase(s[i])]

\* StyledNode::lookup that asks for the fallback name first
lookup_fallback_first(sn, name, fallback_name, default) ==
    IF value(sn, fallback_name).some THEN value(sn, fallback_name).v
    ELSE IF value(sn, name).some THEN value(sn, name).v
    ELSE default

\* StyledNode::lookup: the two unwrap_or_else
lookup(sn, name, fallback_name, default) ==
    IF value(sn, name).some THEN value(sn, name).v
    ELSE IF value(sn, fallback_name).some THEN value(sn, fallback_name).v
    ELSE default

\* the variants of Display
Inline == "Display::Inline"
Block == "Display::Block"
DisplayNone == "Display::None"

\* StyledNode::display that compares the keyword without regard to case
display_any_case(sn) ==
    LET v == value(sn, <<"d", "i", "s", "p", "l", "a", "y">>) IN
    IF v.some /\ v.v.type = "Keyword"
    THEN IF str_to_ascii_lowercase(v.v.s) = <<"b", "l", "o", "c", "k">> THEN Block
         ELSE IF str_to_ascii_lowercase(v.v.s) = <<"n", "o", "n", "e">> THEN DisplayNone
         ELSE Inline
    ELSE Inline

\* StyledNode::display
display(sn) ==
    LET v == value(sn, <<"d", "i", "s", "p", "l", "a", "y">>) IN
    IF v.some /\ v.v.type = "Keyword"
    THEN IF v.v.s = <<"b", "l", "o", "c", "k">> THEN Block
         ELSE IF v.v.s = <<"n", "o", "n", "e">> THEN DisplayNone
         ELSE Inline
    ELSE Inline

\* style_tree that hands the values of a node down to its element children
\* for the names they do not have themselves
RECURSIVE style_tree_inheriting(_, _, _)
style_tree_inheriting(node, path, sheet) ==
    IF node.node_type.kind = "Comment" THEN Unwound("not yet implemented")
    ELSE LET values == IF node.node_type.kind = "Element"
                       THEN specified_values(node.node_type, sheet)
                       ELSE EmptyMap
             kids == [i \in 1..Len(node.children) |->
                        style_tree_inheriting(node.children[i], Append(path, i), sheet)]
             handed(i) ==
                IF node.children[i].node_type.kind # "Element" THEN kids[i].val
                ELSE [kids[i].val EXCEPT !.specified_values =
                        [n \in DOMAIN values \cup DOMAIN @ |->
                            IF n \in DOMAIN @ THEN @[n] ELSE values[n]]]
         IN IF \E i \in 1..Len(kids) : kids[i].tag = "Panic"
            THEN Unwound("not yet implemented")
            ELSE Returned(StyledNode(path, values,
                                     [i \in 1..Len(kids) |-> handed(i)]))

\* style_tree that collects the styled children in reverse order
RECURSIVE style_tree_reversed(_, _, _)
style_tree_reversed(node, path, sheet) ==
    IF node.node_type.kind = "Comment" THEN Unwound("not yet implemented")
    ELSE LET values == IF node.node_type.kind = "Element"
                       THEN specified_values(node.node_type, sheet)
                       ELSE EmptyMap
             n == Len(node.children)
             kids == [i \in 1..n |->
                        style_tree_reversed(node.children[n + 1 - i],
                                            Append(path, n + 1 - i), sheet)]
         IN IF \E i \in 1..Len(kids) : kids[i].tag = "Panic"
            THEN Unwound("not yet implemented")
            ELSE Returned(StyledNode(path, values,
                                     [i \in 1..Len(kids) |-> kids[i].val]))

RECURSIVE style_tree(_, _, _)
style_tree(node, path, sheet) ==
    IF node.node_type.kind = "Comment" THEN Unwound("not yet implemented")
    ELSE LET values == IF node.node_type.kind = "Element"
                       THEN specified_values(node.node_type, sheet)
                       ELSE EmptyMap
             kids == [i \in 1..Len(node.children) |->
                        style_tree(node.children[i], Append(path, i), sheet)]
         IN IF \E i \in 1..Len(kids) : kids[i].tag = "Panic"
            THEN Unwound("not yet implemented")
            ELSE Returned(StyledNode(path, values,
                                     [i \in 1..Len(kids) |-> kids[i].val]))

(***************************************************************************)
(* src/html.rs: the document parser.  Tag names, attribute names and       *)
(* attribute values are texts as the parser reads them.                    *)
(***************************************************************************)
\* the closure of parse_tag_name: matches!(c, 'a'..='z' | 'A'..='Z' | '0'..='9')
tag_name_char == Lower \cup Upper \cup Digits

parse_tag_name(in, p) == consume_while(in, p, tag_name_char)

parse_text(in, p) ==
    Then(consume_while(in, p, Characters \ {"<"}), LAMBDA t :
    Ok(text(t.val), t.pos))

parse_attr_value(in, p) ==
    Then(consume_char(in, p), LAMBDA open_quote :
    Then(consume_while(in, open_quote.pos, Characters \ {open_quote.val}), LAMBDA v :
    Then(consume_char(in, v.pos), LAMBDA close_quote :
    Ok(v.val, close_quote.pos))))

parse_attribute(in, p) ==
    Then(parse_tag_name(in, p), LAMBDA name :
    Then(consume_whitespace(in, name.pos), LAMBDA w1 :
    Then(consume_char(in, w1.pos), LAMBDA equals :
    Then(consume_whitespace(in, equals.pos), LAMBDA w2 :
    Then(parse_attr_value(in, w2.pos), LAMBDA v :
    Ok(<<name.val, v.val>>, v.pos))))))

\* parse_attributes: the loop from position p with the map read so far
RECURSIVE parse_attributes(_, _, _)
parse_attributes(in, p, attributes) ==
    Then(consume_whitespace(in, p), LAMBDA w :
    IF eof(in, w.pos) THEN Ok(attributes, w.pos)
    ELSE Then(next_char(in, w.pos), LAMBDA n :
         IF n.val = ">" \/ n.val = "/" THEN Ok(attributes, w.pos)
         ELSE Then(parse_attribute(in, w.pos), LAMBDA a :
              parse_attributes(in, a.pos, insert(attributes, a.val[1], a.val[2])))))

parse_opening_tag(in, p) ==
    Then(consume_char(in, p), LAMBDA lt :
    Then(parse_tag_name(in, lt.pos), LAMBDA name :
    Then(parse_attributes(in, name.pos, EmptyMap), LAMBDA attrs :
    Then(consume_char(in, attrs.pos), LAMBDA gt :
    Ok(<<name.val, attrs.val>>, gt.pos)))))

parse_closing_tag(in, p) ==
    Then(consume_char(in, p), LAMBDA lt :
    Then(consume_char(in, lt.pos), LAMBDA slash :
    Then(parse_tag_name(in, slash.pos), LAMBDA name :
    Then(consume_char(in, name.pos), LAMBDA gt :
    Ok(name.val, gt.pos)))))

RECURSIVE parse_nodes(_, _, _)
RECURSIVE parse_node(_, _)
RECURSIVE parse_element(_, _)
RECURSIVE parse_element_as_written(_, _)

\* parse_element that compares and keeps the tag names as written
parse_element_as_written(in, p) ==
    Then(parse_opening_tag(in, p), LAMBDA open :
    Then(parse_nodes(in, open.pos, <<>>), LAMBDA children :
    Then(parse_closing_tag(in, children.pos), LAMBDA close :
    IF open.val[1] # close.val
    THEN Err("Opening and closing tag names do not match", close.pos)
    ELSE Ok(elem(open.val[1], open.val[2], children.val), close.pos))))

parse_element(in, p) ==
    Then(parse_opening_tag(in, p), LAMBDA open :
    Then(parse_nodes(in, open.pos, <<>>), LAMBDA children :
    Then(parse_closing_tag(in, children.pos), LAMBDA close :
    LET tag_name == str_to_ascii_lowercase(open.val[1])
        closing_tag_name == str_to_ascii_lowercase(close.val)
    IN IF tag_name # closing_tag_name
       THEN Err("Opening and closing tag names do not match", close.pos)
       ELSE Ok(elem(tag_name, open.val[2], children.val), close.pos))))

parse_node(in, p) ==
    LET n == next_char(in, p) IN
    IF n.tag = "Panic" THEN n
    ELSE IF n.tag = "Err" THEN Err("Failed to get next character", p)
    ELSE IF n.val = "<" THEN parse_element(in, p)
    ELSE parse_text(in, p)

\* parse_nodes: the loop from position p with the nodes read so far
parse_nodes(in, p, nodes) ==
    Then(consume_whitespace(in, p), LAMBDA w :
    IF eof(in, w.pos) THEN Ok(nodes, w.pos)
    ELSE Then(starts_with(in, w.pos, <<"<", "/">>), LAMBDA closing :
         IF closing.val THEN Ok(nodes, w.pos)
         ELSE Then(parse_node(in, w.pos), LAMBDA n :
              parse_nodes(in, n.pos, Append(nodes, n.val)))))

\* HtmlParser::parse that wraps the nodes in an html element in every case
html_parse_always_wrapping(source) ==
    Then(parse_nodes(source, 0, <<>>), LAMBDA nodes :
    Ok(elem(<<"h", "t", "m", "l">>, EmptyMap, nodes.val), nodes.pos))

\* HtmlParser::parse
html_parse(source) ==
    Then(parse_nodes(source, 0, <<>>), LAMBDA nodes :
    IF Len(nodes.val) = 1 THEN Ok(nodes.val[1], nodes.pos)
    ELSE Ok(elem(<<"h", "t", "m", "l">>, EmptyMap, nodes.val), nodes.pos))

(***************************************************************************)
(* Inputs: stylesheet sources and documents                                *)
(***************************************************************************)
MaxRules == 2
MaxSelectors == 3
MaxNodes == 4
MaxDeclarations == 3
MaxGaps == 1

\* selector lists of the cascade sources
CascadeLists ==
    { <<"p">>, <<".", "c">>, <<"#", "i">>, <<"p", ".", "c">>, <<"*">>,
      <<"p", ",", "#", "i">>, <<"#", "j", ",", "p">>, <<"b", ",", "p">> }

\* the k-th rule of a cascade source declares the k-th letter, for property
\* c or for property d
RuleValue(k) == LowerSeq[k]
CascadeRules(k) ==
    { l \o <<"{", n, ":", RuleValue(k), ";", "}">> : l \in CascadeLists, n \in {"c", "d"} }

\* the sources of n rules: a source of n - 1 rules and an n-th rule
CascadeSourcesOf[n \in 0..MaxRules] ==
    IF n = 0 THEN {<<>>}
    ELSE {s \o r : s \in CascadeSourcesOf[n - 1], r \in CascadeRules(n)}

CascadeSources == UNION {CascadeSourcesOf[n] : n \in 0..MaxRules}

\* one rule with an empty block and every list of up to MaxSelectors of
\* these simple selectors
SimpleTexts ==
    { <<"p">>, <<"b">>, <<"*">>, <<"#", "i">>, <<".", "c">>, <<".", "c", ".", "d">>,
      <<"p", "#", "i", ".", "c">> }

\* the lists of n selectors: a list of n - 1 selectors, a comma and an n-th
SelectorListsOf[n \in 1..MaxSelectors] ==
    IF n = 1 THEN SimpleTexts
    ELSE {l \o <<",">> \o s : l \in SelectorListsOf[n - 1], s \in SimpleTexts}

SelectorSources ==
    {l \o <<"{", "}">> : l \in UNION {SelectorListsOf[n] : n \in 1..MaxSelectors}}

\* one rule that declares a property, under each of the lists and each of
\* the simple selectors
SingleSources ==
    { l \o <<"{", "c", ":", "a", ";", "}">> : l \in CascadeLists \cup SimpleTexts }

\* sources styled against document trees
TreeSources ==
    { <<>>,
      <<"*", "{", "c", ":", "r", ";", "}">>,
      <<"b", "{", "c", ":", "g", ";", "}", "p", "{", "d", ":", "r", ";", "}">>,
      <<".", "c", "{", "c", ":", "1", "p", "x", ";", "}">> }

\* the stylesheet of the parser's own example
BodyRule ==
    <<"b", "o", "d", "y", " ", "{", " ", "b", "a", "c", "k", "g", "r", "o",
      "u", "n", "d", "-", "c", "o", "l", "o", "r", ":", " ", "r", "e", "d",
      ";", " ", "}">>

\* well-formed sources with whitespace and every kind of value, and
\* malformed sources
OtherSources ==
    { BodyRule,
      <<" ", "p", " ", ",", "\n", "b", " ", "{", " ", "c", " ", ":", " ", "r",
        " ", ";", "\t", "}", " ">>,
      <<"p", "{", "c", ":", "1", ".", "5", "0", "P", "x", ";",
        "d", ":", "#", "0", "0", "f", "F", "7", "f", ";", "}">>,
      <<"p", "{", "c", " ", "r", ";", "}">>,
      <<"p", "{", "c", ":", "r", "}">>,
      <<"p", "{", "c", ":", "r", ";">>,
      <<"p", "{", "c", ":", "r">>,
      <<"p", "{", "c">>,
      <<"p", "{", "c", ":", "1", "e", "m", ";", "}">>,
      <<"p", "{", "c", ":", "1", ";", "}">>,
      <<"p", "{", "c", ":", "1", ".", "2", ".", "3", "p", "x", ";", "}">>,
      <<"p", "{", "c", ":", "#", "f", "f", "0", "0", ";", "}">>,
      <<"p", "{", "c", ":", "#", "g", "g", "0", "0", "0", "0", ";", "}">>,
      <<"p", "{", "c", ":", "#", "0", "0", "g", "g", "0", "0", ";", "}">>,
      <<"p", "{", "c", ":", "#", "+", "1", "+", "2", "+", "3", ";", "}">>,
      <<"p", "{", "c", ":", "#", "0", LeadByte, ContByte, "0", "0", "0", ";", "}">>,
      <<"p", "{", "c", ":", "#", "f", "f">>,
      <<"p", " ", "b", "{", "}">>,
      <<"p", "}", "{">>,
      <<"p", ">", "b", "{", "}">>,
      <<"p">>,
      <<"p", ",">>,
      <<"#", "{", "}">>,
      <<".", ",", ".", "{", "}">>,
      <<LeadByte, ContByte, "{", "}">>,
      <<"p", "{", "}", "b", "{", "c", ":", "r", ";">>,
      <<"{", "}">> }

\* a well-formed rule, and rules with one fault each: a declaration with no
\* ':', a declaration with no ';', a block with no '}', a length whose unit
\* is not px, a character after a selector that is neither ',' nor '{'
WellFormedRule == <<"b", "{", "d", ":", "g", ";", "}">>

MissingColon ==
    { <<"p", "{", "c", " ", "r", ";", "}">>, <<"p", "{", "c", ";", "}">>,
      <<"p", "{", "d", ":", "g", ";", "c", "r", ";", "}">> }
MissingSemicolon ==
    { <<"p", "{", "c", ":", "r", "}">>,
      <<"p", "{", "c", ":", "r", " ", "d", ":", "g", ";", "}">>,
      <<"p", "{", "c", ":", "1", "p", "x", "\n", "}">> }
UnclosedBlock ==
    { <<"p", "{">>, <<"p", "{", "c", ":", "r", ";">>,
      <<"p", "{", "c", ":", "r", ";", " ">> }
ForeignUnit ==
    { <<"p", "{", "c", ":", "1", "e", "m", ";", "}">>,
      <<"p", "{", "c", ":", "1", ";", "}">>,
      <<"p", "{", "c", ":", "2", ".", "5", "%", ";", "}">>,
      <<"p", "{", "d", ":", "g", ";", "c", ":", "1", "p", "t", ";", "}">> }
StraySelectorCharacter ==
    { <<"p", ">", "b", "{", "}">>, <<"p", " ", "b", "{", "}">>,
      <<"p", ",", "b", " ", ".", "c", "{", "}">>, <<"p", "}", "{", "}">>,
      <<"p", ":", "{", "c", ":", "r", ";", "}">> }

FaultyRules ==
    MissingColon \cup MissingSemicolon \cup UnclosedBlock \cup ForeignUnit
        \cup StraySelectorCharacter

\* a faulty rule alone, after a well-formed rule, before one, or between two
FaultySources ==
    { before \o f \o after :
        before \in {<<>>, WellFormedRule}, f \in FaultyRules,
        after \in {<<>>, WellFormedRule} }

\* blocks of up to MaxDeclarations declarations that repeat names: each
\* declaration is one of c:a, c:b and d:a
RepeatedDeclarations ==
    { <<"c", ":", "a", ";">>, <<"c", ":", "b", ";">>, <<"d", ":", "a", ";">> }

RepeatedBlocksOf[n \in 1..MaxDeclarations] ==
    IF n = 1 THEN RepeatedDeclarations
    ELSE {b \o d : b \in RepeatedBlocksOf[n - 1], d \in RepeatedDeclarations}

\* a rule for p with such a block: alone, after a rule of higher or of
\* equal specificity, before a rule of lower or of equal specificity
RepeatedSources ==
    { before \o <<"p", "{">> \o b \o <<"}">> \o after :
        before \in {<<>>, <<"#", "i", "{", "c", ":", "z", ";", "}">>,
                     <<"p", "{", "c", ":", "w", ";", "}">>},
        b \in UNION {RepeatedBlocksOf[n] : n \in 1..MaxDeclarations},
        after \in {<<>>, <<"*", "{", "c", ":", "y", ";", "}">>,
                    <<"p", "{", "c", ":", "w", ";", "}">>} }

\* two stylesheets as the sequences of their lexical elements
ListElements ==
    << <<"p">>, <<",">>, <<"#", "i">>, <<"{">>, <<"c">>, <<":">>, <<"r">>, <<";">>,
       <<"d">>, <<":">>, <<"1", "p", "x">>, <<";">>, <<"}">> >>
ColorElements ==
    << <<"b">>, <<"{">>, <<"}">>, <<".", "c">>, <<"{">>, <<"c">>, <<":">>,
       <<"#", "0", "0", "f", "f", "7", "F">>, <<";">>, <<"}">> >>

\* runs of whitespace
GapRuns == { <<" ">>, <<"\n", "\t">> }

\* the texts of the elements from the k-th on with a run of whitespace in at
\* most n of the gaps before, between and after them
RECURSIVE Spaced(_, _, _)
Spaced(elements, k, n) ==
    IF k > Len(elements)
    THEN {<<>>} \cup (IF n > 0 THEN GapRuns ELSE {})
    ELSE { elements[k] \o rest : rest \in Spaced(elements, k + 1, n) }
           \cup (IF n > 0
                 THEN { w \o elements[k] \o rest :
                          w \in GapRuns, rest \in Spaced(elements, k + 1, n - 1) }
                 ELSE {})

\* the text of the elements with the run w in every gap
EveryGap(elements, w) ==
    LET joined[k \in 0..Len(elements)] ==
            IF k = 0 THEN w ELSE joined[k - 1] \o elements[k] \o w
    IN joined[Len(elements)]

\* a stylesheet with whitespace in no gap, in at most MaxGaps of its gaps,
\* and in every gap
SpacedSources(elements) ==
    Spaced(elements, 1, MaxGaps) \cup { EveryGap(elements, w) : w \in GapRuns }

SpacedListSources == SpacedSources(ListElements)
SpacedColorSources == SpacedSources(ColorElements)

Inputs ==
    CascadeSources \cup SelectorSources \cup SingleSources \cup TreeSources
        \cup OtherSources \cup FaultySources \cup RepeatedSources
        \cup SpacedListSources \cup SpacedColorSources

\* attribute maps with an optional id and an optional class
Attributes(i, c) ==
    [k \in (IF i.some THEN {"id"} ELSE {}) \cup (IF c.some THEN {"class"} ELSE {})
        |-> IF k = "id" THEN i.v ELSE c.v]

IdValues == {None, Some(<<"i">>), Some(<<"j">>)}
ClassValues ==
    {None, Some(<<"c">>), Some(<<"c", " ", "d">>), Some(<<"d", " ", " ", "c">>),
     Some(<<>>)}

\* documents of one element
ElementDocuments ==
    { elem(<<t>>, Attributes(i, c), <<>>) :
        t \in {"p", "b"}, i \in IdValues, c \in ClassValues }

\* the documents of one element that the sources of several rules or
\* several selectors are styled against
CascadeDocuments ==
    { elem(<<t>>, Attributes(i, c), <<>>) :
        t \in {"p", "b"}, i \in {None, Some(<<"i">>)}, c \in {None, Some(<<"c">>)} }

\* node types of the document trees
TreeNodeTypes ==
    { Text(<<"t">>), Comment(<<"x">>), Element(<<"p">>, Attributes(None, None)),
      Element(<<"b">>, Attributes(Some(<<"i">>), Some(<<"c">>))) }

\* the sequences of trees of m nodes in all: a first tree of k nodes and a
\* sequence of trees of m - k nodes; a tree of n nodes is one node above
\* such a sequence of n - 1 nodes
RECURSIVE ForestsOf(_)
ForestsOf(m) ==
    IF m = 0 THEN {<<>>}
    ELSE UNION { { <<Node(kids, ty)>> \o rest :
                     kids \in ForestsOf(k - 1), ty \in TreeNodeTypes,
                     rest \in ForestsOf(m - k) }
                 : k \in 1..m }

TreeDocuments ==
    UNION { { Node(kids, ty) : kids \in ForestsOf(n - 1), ty \in TreeNodeTypes }
            : n \in 1..MaxNodes }

DocumentsFor(source) ==
    IF source \in TreeSources THEN TreeDocuments
    ELSE IF source \in SingleSources \cup OtherSources THEN ElementDocuments
    ELSE CascadeDocuments

(***************************************************************************)
(* css::parse as a step machine: one action per loop iteration             *)
(***************************************************************************)
EmptySelector == SimpleSelector(None, None, <<>>)
NoStylesheet == Stylesheet(<<>>)
NoNode == [children |-> <<>>, node_type |-> [kind |-> "none"]]
NoStyled == [tag |-> "none"]

\* no function is called on its own: the arguments and the value returned
NoCall == [fn |-> "none"]
NoResult == [tag |-> "none"]

\* no source is written from markup
NoMarkup == [forest |-> <<>>, gap |-> <<>>]

Init ==
    /\ input \in Inputs
    /\ position = 0
    /\ pc = "parse_rules"
    /\ selector = EmptySelector
    /\ selectors = <<>>
    /\ declarations = <<>>
    /\ rules = <<>>
    /\ outcome = "running"
    /\ error = ""
    /\ stylesheet = NoStylesheet
    /\ root = NoNode
    /\ styled = NoStyled
    /\ call = NoCall
    /\ result = NoResult
    /\ markup = NoMarkup

\* a failure that ends the parse with the rules read so far as its stylesheet
AbortKeepingRules(r) ==
    /\ outcome' = "ok"
    /\ error' = r.msg
    /\ position' = r.pos
    /\ stylesheet' = Stylesheet(rules)
    /\ pc' = "done"
    /\ UNCHANGED <<input, selector, selectors, declarations, rules, root, styled,
                   call, result, markup>>

\* a panic unwinds css::parse: r is the result that carries it
Abort(r) ==
    /\ outcome' = "panic"
    /\ error' = r.msg
    /\ position' = r.pos
    /\ pc' = "done"
    /\ UNCHANGED <<input, selector, selectors, declarations, rules, stylesheet,
                   root, styled, call, result, markup>>

\* parse_rules: one iteration of the loop; at the end of the input
\* css::parse returns the stylesheet
ParseRules ==
    /\ pc = "parse_rules"
    /\ \E w \in {consume_whitespace(input, position)} :
       IF w.tag # "Ok" THEN Abort(unwrap(w))
       ELSE IF eof(input, w.pos)
       THEN /\ pc' = "done"
            /\ outcome' = "ok"
            /\ stylesheet' = Stylesheet(rules)
            /\ position' = w.pos
            /\ UNCHANGED <<input, selector, selectors, declarations, rules, error,
                           root, styled, call, result, markup>>
       ELSE /\ pc' = "parse_simple_selector"
            /\ selectors' = <<>>
            /\ selector' = EmptySelector
            /\ position' = w.pos
            /\ UNCHANGED <<input, declarations, rules, outcome, error, stylesheet,
                           root, styled, call, result, markup>>

\* the step of parse_simple_selector's loop that leaves a '*' in the input
simple_selector_step_keeping_star(in, p, s) ==
    LET n == next_char(in, p) IN
    IF eof(in, p) THEN Ok(<<s, FALSE>>, p)
    ELSE IF n.tag = "Panic" THEN n
    ELSE IF n.val \in {"#", ".", "*"}
    THEN LET c == consume_char(in, p)
             ident == unwrap(parse_identifier(in, c.pos))
         IN IF c.tag # "Ok" THEN c
            ELSE IF n.val = "*" THEN Ok(<<s, TRUE>>, p)
            ELSE IF ident.tag # "Ok" THEN ident
            ELSE IF n.val = "#"
            THEN Ok(<<[s EXCEPT !.id = Some(ident.val)], TRUE>>, ident.pos)
            ELSE Ok(<<[s EXCEPT !.class = Append(@, ident.val)], TRUE>>, ident.pos)
    ELSE IF n.val \in valid_identifier_char
    THEN LET ident == unwrap(parse_identifier(in, p)) IN
         IF ident.tag # "Ok" THEN ident
         ELSE Ok(<<[s EXCEPT !.tag_name = Some(ident.val)], TRUE>>, ident.pos)
    ELSE Ok(<<s, FALSE>>, p)

\* the step of parse_simple_selector's loop that keeps the first id
simple_selector_step_first_id(in, p, s) ==
    LET n == next_char(in, p) IN
    IF eof(in, p) THEN Ok(<<s, FALSE>>, p)
    ELSE IF n.tag = "Panic" THEN n
    ELSE IF n.val \in {"#", ".", "*"}
    THEN LET c == consume_char(in, p)
             ident == unwrap(parse_identifier(in, c.pos))
         IN IF c.tag # "Ok" THEN c
            ELSE IF n.val = "*" THEN Ok(<<s, TRUE>>, c.pos)
            ELSE IF ident.tag # "Ok" THEN ident
            ELSE IF n.val = "#"
            THEN Ok(<<IF s.id.some THEN s ELSE [s EXCEPT !.id = Some(ident.val)], TRUE>>,
                    ident.pos)
            ELSE Ok(<<[s EXCEPT !.class = Append(@, ident.val)], TRUE>>, ident.pos)
    ELSE IF n.val \in valid_identifier_char
    THEN LET ident == unwrap(parse_identifier(in, p)) IN
         IF ident.tag # "Ok" THEN ident
         ELSE Ok(<<[s EXCEPT !.tag_name = Some(ident.val)], TRUE>>, ident.pos)
    ELSE Ok(<<s, FALSE>>, p)

\* the step of parse_simple_selector's loop at position p on selector s:
\* val is <<selector, TRUE when the loop goes on>>
simple_selector_step(in, p, s) ==
    LET n == next_char(in, p) IN
    IF eof(in, p) THEN Ok(<<s, FALSE>>, p)
    ELSE IF n.tag = "Panic" THEN n
    ELSE IF n.val \in {"#", ".", "*"}
    THEN LET c == consume_char(in, p)
             ident == unwrap(parse_identifier(in, c.pos))
         IN IF c.tag # "Ok" THEN c
            ELSE IF n.val = "*" THEN Ok(<<s, TRUE>>, c.pos)
            ELSE IF ident.tag # "Ok" THEN ident
            ELSE IF n.val = "#"
            THEN Ok(<<[s EXCEPT !.id = Some(ident.val)], TRUE>>, ident.pos)
            ELSE Ok(<<[s EXCEPT !.class = Append(@, ident.val)], TRUE>>, ident.pos)
    ELSE IF n.val \in valid_identifier_char
    THEN LET ident == unwrap(parse_identifier(in, p)) IN
         IF ident.tag # "Ok" THEN ident
         ELSE Ok(<<[s EXCEPT !.tag_name = Some(ident.val)], TRUE>>, ident.pos)
    ELSE Ok(<<s, FALSE>>, p)

\* parse_simple_selector as one call: the loop from the selector s
RECURSIVE simple_selector_loop(_, _, _)
simple_selector_loop(in, p, s) ==
    Then(simple_selector_step(in, p, s), LAMBDA r :
    IF r.val[2] THEN simple_selector_loop(in, r.pos, r.val[1])
    ELSE Ok(r.val[1], r.pos))

parse_simple_selector(in, p) == simple_selector_loop(in, p, EmptySelector)

\* parse_simple_selector: one iteration of the loop; when the loop ends
\* parse_selectors pushes the selector
ParseSimpleSelector ==
    /\ pc = "parse_simple_selector"
    /\ \E r \in {simple_selector_step(input, position, selector)} :
       IF r.tag # "Ok" THEN Abort(unwrap(r))
       ELSE IF r.val[2]
       THEN /\ selector' = r.val[1]
            /\ position' = r.pos
            /\ UNCHANGED <<input, pc, selectors, declarations, rules, outcome, error,
                           stylesheet, root, styled, call, result, markup>>
       ELSE /\ selectors' = Append(selectors, Simple(r.val[1]))
            /\ position' = r.pos
            /\ pc' = "parse_selectors"
            /\ UNCHANGED <<input, selector, declarations, rules, outcome, error,
                           stylesheet, root, styled, call, result, markup>>

\* parse_selectors: what follows a selector, and the sort on leaving the loop
ParseSelectors ==
    /\ pc = "parse_selectors"
    /\ \E w \in {consume_whitespace(input, position)} :
       \E n \in {next_char(input, w.pos)}, c \in {consume_char(input, w.pos)} :
       \E w2 \in {consume_whitespace(input, c.pos)} :
       IF w.tag # "Ok" THEN Abort(unwrap(w))
       ELSE IF n.tag = "Panic" THEN Abort(n)
       ELSE IF n.tag = "Ok" /\ n.val = ","
       THEN IF w2.tag # "Ok" THEN Abort(unwrap(w2))
            ELSE /\ position' = w2.pos
                 /\ selector' = EmptySelector
                 /\ pc' = "parse_simple_selector"
                 /\ UNCHANGED <<input, selectors, declarations, rules, outcome, error,
                                stylesheet, root, styled, call, result, markup>>
       ELSE IF n.tag = "Err" \/ n.val = "{"
       THEN /\ selectors' = SortSelectors(selectors)
            /\ position' = w.pos
            /\ pc' = "parse_declarations"
            /\ UNCHANGED <<input, selector, declarations, rules, outcome, error,
                           stylesheet, root, styled, call, result, markup>>
       ELSE Abort(Panic("Unexpected character in selector list", w.pos))

\* parse_declarations: the opening brace
ParseDeclarations ==
    /\ pc = "parse_declarations"
    /\ \E c \in {consume_char(input, position)} :
       IF c.tag # "Ok" THEN Abort(unwrap(c))
       ELSE IF c.val # "{" THEN Abort(Panic("assertion failed: '{'", c.pos))
       ELSE /\ declarations' = <<>>
            /\ position' = c.pos
            /\ pc' = "parse_declaration"
            /\ UNCHANGED <<input, selector, selectors, rules, outcome, error,
                           stylesheet, root, styled, call, result, markup>>

\* parse_declarations: one iteration of the loop; on '}' parse_rule returns
\* and parse_rules pushes the rule
ParseDeclaration ==
    /\ pc = "parse_declaration"
    /\ \E w \in {consume_whitespace(input, position)} :
       \E n \in {next_char(input, w.pos)}, c \in {consume_char(input, w.pos)},
          d \in {unwrap(parse_declaration(input, w.pos))} :
       IF w.tag # "Ok" THEN Abort(unwrap(w))
       ELSE IF n.tag # "Ok" THEN Abort(unwrap(n))
       ELSE IF n.val = "}"
       THEN /\ rules' = Append(rules, Rule(selectors, declarations))
            /\ position' = c.pos
            /\ pc' = "parse_rules"
            /\ UNCHANGED <<input, selector, selectors, declarations, outcome, error,
                           stylesheet, root, styled, call, result, markup>>
       ELSE IF d.tag # "Ok" THEN Abort(d)
       ELSE /\ declarations' = Append(declarations, d.val)
            /\ position' = d.pos
            /\ UNCHANGED <<input, pc, selector, selectors, rules, outcome, error,
                           stylesheet, root, styled, call, result, markup>>

\* style_tree on a document and the stylesheet css::parse returned
StyleTree ==
    /\ pc = "done"
    /\ outcome = "ok"
    /\ \E doc \in DocumentsFor(input) :
        /\ root' = doc
        /\ styled' = style_tree(doc, <<>>, stylesheet)
    /\ pc' = "styled"
    /\ UNCHANGED <<input, position, selector, selectors, declarations, rules,
                   outcome, error, stylesheet, call, result, markup>>

Next ==
    \/ ParseRules
    \/ ParseSimpleSelector
    \/ ParseSelectors
    \/ ParseDeclarations
    \/ ParseDeclaration
    \/ StyleTree

Spec == Init /\ [][Next]_vars

(***************************************************************************)
(* css::parse alone, on every short text over the characters of the        *)
(* grammar and on the longer sources with every kind of value and fault.   *)
(* css::parse is one sequential call: unless it has returned or panicked   *)
(* it takes its next step.                                                 *)
(***************************************************************************)
MaxText == 3

TextChars == {"p", "#", "*", ",", "{", "}", ":", ";", " "}

\* the texts of up to MaxText of these characters
ShortTexts ==
    LET upto[k \in 0..MaxText] ==
            IF k = 0 THEN {<<>>}
            ELSE upto[k - 1] \cup {Append(t, c) : t \in upto[k - 1], c \in TextChars}
    IN upto[MaxText]

ParseInputs ==
    ShortTexts \cup TreeSources \cup OtherSources \cup FaultySources
        \cup SpacedListSources \cup SpacedColorSources

\* before the call: no source has been handed over yet
ParseInit ==
    /\ input = <<>>
    /\ position = 0
    /\ pc = "parse"
    /\ selector = EmptySelector
    /\ selectors = <<>>
    /\ declarations = <<>>
    /\ rules = <<>>
    /\ outcome = "running"
    /\ error = ""
    /\ stylesheet = NoStylesheet
    /\ root = NoNode
    /\ styled = NoStyled
    /\ call = NoCall
    /\ result = NoResult
    /\ markup = NoMarkup

\* css::parse(source): the parser is built over the source at position 0
\* and parse_rules is entered
CssParse ==
    /\ pc = "parse"
    /\ \E source \in ParseInputs : input' = source
    /\ position' = 0
    /\ pc' = "parse_rules"
    /\ UNCHANGED <<selector, selectors, declarations, rules, outcome, error, stylesheet,
                   root, styled, call, result, markup>>

ParseNext ==
    \/ CssParse
    \/ ParseRules
    \/ ParseSimpleSelector
    \/ ParseSelectors
    \/ ParseDeclarations
    \/ ParseDeclaration

ParseSpec == ParseInit /\ [][ParseNext]_vars /\ WF_vars(ParseNext)

(***************************************************************************)
(* The functions a caller reaches one at a time: StyledNode::display and   *)
(* StyledNode::lookup on a styled node, CssParser::parse_color and         *)
(* CssParser::parse_unit on a parser at a position of its input, and       *)
(* ElementData::classes on an element.  pc names the function about to be  *)
(* called; call keeps its arguments and result what it returned.           *)
(***************************************************************************)
MaxUnit == 3
MaxClass == 4
MaxScan == 3

\* the strings over S of at most n characters
Strings(S, n) ==
    LET upto[k \in 0..n] ==
            IF k = 0 THEN {<<>>}
            ELSE upto[k - 1] \cup {Append(s, c) : s \in upto[k - 1], c \in S}
    IN upto[n]

\* property maps of a styled node: display, margin and margin-left, each
\* absent or with one of a few values
DisplayName == <<"d", "i", "s", "p", "l", "a", "y">>
MarginName == <<"m", "a", "r", "g", "i", "n">>
MarginLeftName == <<"m", "a", "r", "g", "i", "n", "-", "l", "e", "f", "t">>
AccessorNames == {DisplayName, MarginName, MarginLeftName}

DisplayValues ==
    { Keyword(<<"b", "l", "o", "c", "k">>), Keyword(<<"n", "o", "n", "e">>),
      Keyword(<<"B", "l", "o", "c", "k">>), Keyword(<<"N", "O", "N", "E">>),
      Keyword(<<"i", "n", "l", "i", "n", "e">>), Keyword(<<>>),
      Length(<<1, 0>>, "Px"), ColorValue(0, 0, 0, 255) }
MarginValues == { Length(<<1, 0>>, "Px"), Keyword(<<"a", "u", "t", "o">>) }
MarginLeftValues == { Length(<<2, 0>>, "Px"), Keyword(<<"a", "u", "t", "o">>) }
LookupDefaults == { Length(<<0, 0>>, "Px"), Keyword(<<"n", "o", "n", "e">>) }

Optional(S) == {None} \cup {Some(v) : v \in S}

AccessorMaps ==
    { [n \in {k \in AccessorNames : f[k].some} |-> f[n].v] :
        f \in { [k \in AccessorNames |->
                    IF k = DisplayName THEN d ELSE IF k = MarginName THEN m ELSE l] :
                 d \in Optional(DisplayValues), m \in Optional(MarginValues),
                 l \in Optional(MarginLeftValues) } }

\* texts for parse_color: '#' and three pairs of characters, with or without
\* a ';' after them; '#' and fewer characters; a pair that ends inside a
\* character
HexPairs ==
    { <<"0", "0">>, <<"f", "f">>, <<"7", "F">>, <<"a", "0">>, <<"0", "g">>,
      <<"g", "0">>, <<"+", "1">>, <<"+", "f">>, <<"-", "1">>, <<"1", "+">>,
      <<" ", "1">>, <<LeadByte, ContByte>> }

ColorTexts ==
    { <<"#">> \o a \o b \o c \o after :
        a \in HexPairs, b \in HexPairs, c \in HexPairs, after \in {<<>>, <<";">>} }
      \cup { <<"#">> \o s :
               s \in { <<>>, <<"0">>, <<"0", "0">>, <<"0", "0", "f">>,
                       <<"0", "0", "f", "f">>, <<"0", "0", "f", "f", "0">>,
                       <<"f", "f", ";", "}">>, <<"+", "1", "+", "2">>,
                       <<"0", LeadByte, ContByte, "0", "0", "0">>,
                       <<"0", "0", "0", "0", "0", LeadByte, ContByte>> } }

\* texts for parse_unit: up to MaxUnit identifier characters and what may
\* follow a unit
UnitChars == {"p", "P", "x", "X", "t", "-"}
UnitTexts ==
    { u \o after :
        u \in Strings(UnitChars, MaxUnit),
        after \in {<<>>, <<";">>, <<" ", "p", "x">>, <<LeadByte, ContByte>>} }

\* what the parser has read before the value
ValuePrefixes == {<<>>, <<"c", ":">>}

\* class attributes: up to MaxClass characters of names and whitespace
ClassChars == {"c", "d", " ", "\t", "\n"}
ClassAttributes == Optional(Strings(ClassChars, MaxClass))

\* texts for the scanning primitives: up to MaxScan characters, one of them
\* of two bytes
ScanChars == {"a", " ", "<", NonAscii}
Encode(c) == IF c = NonAscii THEN <<LeadByte, ContByte>> ELSE <<c>>
ScanTexts ==
    LET upto[k \in 0..MaxScan] ==
            IF k = 0 THEN {<<>>}
            ELSE upto[k - 1] \cup {s \o Encode(c) : s \in upto[k - 1], c \in ScanChars}
    IN upto[MaxScan]

\* the conditions the parsers pass to consume_while: char::is_whitespace,
\* valid_identifier_char, and the closure |c| c != '<' of parse_text
ScanConditions == {is_whitespace, valid_identifier_char, ScanChars \ {"<"}}

\* texts for parse_simple_selector: up to MaxSelectorText characters among a
\* name's characters, the three marks, and two characters that end a selector
MaxSelectorText == 4
SelectorTextChars == {"a", "b", "#", ".", "*", "{", NonAscii}
SelectorTexts ==
    LET upto[k \in 0..MaxSelectorText] ==
            IF k = 0 THEN {<<>>}
            ELSE upto[k - 1] \cup {s \o Encode(c) : s \in upto[k - 1], c \in SelectorTextChars}
    IN upto[MaxSelectorText]

\* the function, condition and position of a call of a scanning primitive
Scanned(c) ==
    IF c.fn \in {"consume_char", "consume_while"}
    THEN [fn |-> c.fn, condition |-> c.condition, at |-> c.at]
    ELSE [fn |-> "none", condition |-> {}, at |-> 0]

CallInit ==
    /\ selector = EmptySelector
    /\ selectors = <<>>
    /\ declarations = <<>>
    /\ rules = <<>>
    /\ outcome = "running"
    /\ error = ""
    /\ stylesheet = NoStylesheet
    /\ call = NoCall
    /\ result = NoResult
    /\ markup = NoMarkup
    /\ \/ /\ pc \in {"display", "lookup"}
          /\ \E m \in AccessorMaps : styled = Returned(StyledNode(<<>>, m, <<>>))
          /\ root = elem(<<"p">>, Attributes(None, None), <<>>)
          /\ input = <<>>
          /\ position = 0
       \/ /\ pc = "parse_color"
          /\ \E before \in ValuePrefixes, c \in ColorTexts :
                /\ input = before \o c
                /\ position = Len(before)
          /\ root = NoNode
          /\ styled = NoStyled
       \/ /\ pc = "parse_unit"
          /\ \E before \in ValuePrefixes, u \in UnitTexts :
                /\ input = before \o u
                /\ position = Len(before)
          /\ root = NoNode
          /\ styled = NoStyled
       \/ /\ pc = "classes"
          /\ \E c \in ClassAttributes : root = elem(<<"p">>, Attributes(None, c), <<>>)
          /\ styled = NoStyled
          /\ input = <<>>
          /\ position = 0
       \/ /\ pc = "scan"
          /\ input \in ScanTexts
          /\ position = 0
          /\ root = NoNode
          /\ styled = NoStyled
       \/ /\ pc = "parse_simple_selector"
          /\ input \in SelectorTexts
          /\ position = 0
          /\ root = NoNode
          /\ styled = NoStyled

CallDisplay ==
    /\ pc = "display"
    /\ call' = [fn |-> "display"]
    /\ result' = Returned(display(styled.val))
    /\ pc' = "returned"
    /\ UNCHANGED <<input, position, selector, selectors, declarations, rules,
                   outcome, error, stylesheet, root, styled, markup>>

CallLookup ==
    /\ pc = "lookup"
    /\ \E name \in AccessorNames, fallback_name \in AccessorNames,
          default \in LookupDefaults :
          /\ call' = [fn |-> "lookup", name |-> name,
                      fallback_name |-> fallback_name, default |-> default]
          /\ result' = Returned(lookup(styled.val, name, fallback_name, default))
    /\ pc' = "returned"
    /\ UNCHANGED <<input, position, selector, selectors, declarations, rules,
                   outcome, error, stylesheet, root, styled, markup>>

\* a parser function moves the position, also when it fails
CallParseColor ==
    /\ pc = "parse_color"
    /\ call' = [fn |-> "parse_color", position |-> position]
    /\ result' = parse_color(input, position)
    /\ position' = result'.pos
    /\ pc' = "returned"
    /\ UNCHANGED <<input, selector, selectors, declarations, rules, outcome, error,
                   stylesheet, root, styled, markup>>

CallParseUnit ==
    /\ pc = "parse_unit"
    /\ call' = [fn |-> "parse_unit", position |-> position]
    /\ result' = parse_unit(input, position)
    /\ position' = result'.pos
    /\ pc' = "returned"
    /\ UNCHANGED <<input, selector, selectors, declarations, rules, outcome, error,
                   stylesheet, root, styled, markup>>

CallClasses ==
    /\ pc = "classes"
    /\ call' = [fn |-> "classes"]
    /\ result' = Returned(classes(root.node_type))
    /\ pc' = "returned"
    /\ UNCHANGED <<input, position, selector, selectors, declarations, rules,
                   outcome, error, stylesheet, root, styled, markup>>

\* a parser calls the scanning primitives one after the other from
\* position 0; call.before is the call before this one
CallConsumeChar ==
    /\ pc = "scan"
    /\ result.tag # "Panic"
    /\ call' = [fn |-> "consume_char", condition |-> {}, at |-> position,
                before |-> Scanned(call)]
    /\ result' = consume_char(input, position)
    /\ position' = result'.pos
    /\ UNCHANGED <<input, pc, selector, selectors, declarations, rules, outcome,
                   error, stylesheet, root, styled, markup>>

CallConsumeWhile ==
    /\ pc = "scan"
    /\ result.tag # "Panic"
    /\ \E condition \in ScanConditions :
          /\ call' = [fn |-> "consume_while", condition |-> condition,
                      at |-> position, before |-> Scanned(call)]
          /\ result' = consume_while(input, position, condition)
    /\ position' = result'.pos
    /\ UNCHANGED <<input, pc, selector, selectors, declarations, rules, outcome,
                   error, stylesheet, root, styled, markup>>

CallParseSimpleSelector ==
    /\ pc = "parse_simple_selector"
    /\ call' = [fn |-> "parse_simple_selector", position |-> position]
    /\ result' = parse_simple_selector(input, position)
    /\ position' = result'.pos
    /\ pc' = "returned"
    /\ UNCHANGED <<input, selector, selectors, declarations, rules, outcome, error,
                   stylesheet, root, styled, markup>>

CallNext ==
    \/ CallDisplay
    \/ CallLookup
    \/ CallParseColor
    \/ CallParseUnit
    \/ CallClasses
    \/ CallConsumeChar
    \/ CallConsumeWhile
    \/ CallParseSimpleSelector

CallSpec == CallInit /\ [][CallNext]_vars

(***************************************************************************)
(* HtmlParser::parse on a whole source and HtmlParser::parse_element on a  *)
(* parser at the '<' of an element.  A source is written from markup: a    *)
(* forest of texts and of elements with the spelling of the opening and    *)
(* of the closing tag name, the attributes in the order written and the    *)
(* children, with the same run of whitespace after every '>'.              *)
(***************************************************************************)
MaxMarkup == 3

\* a tag name as written and the same name in ASCII lower case
Spellings ==
    { << <<"a">>, <<"a">> >>, << <<"A">>, <<"a">> >>, << <<"b">>, <<"b">> >>,
      << <<"B">>, <<"b">> >>, << <<"d", "I", "v", "1">>, <<"d", "i", "v", "1">> >>,
      << <<"d", "i", "v", "1">>, <<"d", "i", "v", "1">> >>,
      << <<"d", "i", "v">>, <<"d", "i", "v">> >>, << <<>>, <<>> >> }

\* the opening and the closing name of an element as written
TagPairs ==
    { << <<"a">>, <<"a">> >>, << <<"A">>, <<"a">> >>, << <<"a">>, <<"A">> >>,
      << <<"a">>, <<"b">> >>, << <<"A">>, <<"b">> >>, << <<>>, <<>> >>,
      << <<>>, <<"a">> >>, << <<"a">>, <<>> >>,
      << <<"d", "I", "v", "1">>, <<"d", "i", "v", "1">> >>,
      << <<"d", "I", "v", "1">>, <<"d", "i", "v">> >> }

\* an attribute as written: <<name, value, quote>>
WrittenAttributes ==
    { <<>>,
      << <<<<"i", "d">>, <<"i">>, "\"">> >>,
      << <<<<"c">>, <<"x", " ", "y">>, "'">>, <<<<"I", "d">>, <<>>, "\"">>,
         <<<<"c">>, <<"z">>, "\"">> >> }

MarkupText(data) ==
    [kind |-> "text", data |-> data, open |-> <<>>, close |-> <<>>, attrs |-> <<>>,
     children |-> <<>>]
MarkupElement(open, close, attrs, children) ==
    [kind |-> "element", data |-> <<>>, open |-> open, close |-> close,
     attrs |-> attrs, children |-> children]

\* the tags of the elements of a forest: three whose names agree and one
\* whose names differ
ForestTags ==
    { << <<"a">>, <<"a">>, <<>> >>,
      << <<"B">>, <<"b">>, << <<<<"i", "d">>, <<"i">>, "\"">> >> >>,
      << <<"a">>, <<"A">>, <<>> >>,
      << <<"a">>, <<"b">>, <<>> >> }

ForestTexts == { <<"t", " ">> }

\* the forests of m nodes in all in which no text follows a text
MarkupForestsOf[m \in 0..MaxMarkup] ==
    IF m = 0 THEN {<<>>}
    ELSE UNION {
           { <<MarkupElement(t[1], t[2], t[3], kids)>> \o rest :
               t \in ForestTags, kids \in MarkupForestsOf[k - 1],
               rest \in MarkupForestsOf[m - k] }
           : k \in 1..m }
         \cup { <<MarkupText(d)>> \o rest :
                  d \in ForestTexts,
                  rest \in {r \in MarkupForestsOf[m - 1] :
                              r = <<>> \/ r[1].kind # "text"} }

MarkupForests == UNION {MarkupForestsOf[m] : m \in 0..MaxMarkup}

\* the elements parse_element is called on: every pair of names, every
\* list of attributes, and children of up to MaxMarkup - 1 nodes
MarkupElements ==
    { MarkupElement(t[1], t[2], a, kids) :
        t \in TagPairs, a \in WrittenAttributes,
        kids \in UNION {MarkupForestsOf[m] : m \in 0..(MaxMarkup - 1)} }

Gaps == { <<>>, <<"\n", " ">> }

RECURSIVE AttributesSource(_)
AttributesSource(attrs) ==
    IF attrs = <<>> THEN <<>>
    ELSE <<" ">> \o attrs[1][1] \o <<"=", attrs[1][3]>> \o attrs[1][2]
            \o <<attrs[1][3]>> \o AttributesSource(Tail(attrs))

\* the source of a forest; an element's source ends at the '>' of its
\* closing tag
RECURSIVE MarkupSource(_, _)
ElementSource(n, gap) ==
    <<"<">> \o n.open \o AttributesSource(n.attrs) \o <<">">> \o gap
        \o MarkupSource(n.children, gap) \o <<"<", "/">> \o n.close \o <<">">>

MarkupSource(forest, gap) ==
    IF forest = <<>> THEN <<>>
    ELSE (IF forest[1].kind = "text" THEN forest[1].data
          ELSE ElementSource(forest[1], gap) \o gap)
            \o MarkupSource(Tail(forest), gap)

HtmlInit ==
    /\ selector = EmptySelector
    /\ selectors = <<>>
    /\ declarations = <<>>
    /\ rules = <<>>
    /\ outcome = "running"
    /\ error = ""
    /\ stylesheet = NoStylesheet
    /\ root = NoNode
    /\ styled = NoStyled
    /\ call = NoCall
    /\ result = NoResult
    /\ \/ /\ pc = "html_parse"
          /\ \E f \in MarkupForests, gap \in Gaps :
                /\ markup = [forest |-> f, gap |-> gap]
                /\ input = gap \o MarkupSource(f, gap)
          /\ position = 0
       \/ /\ pc = "parse_element"
          /\ \E e \in MarkupElements, gap \in Gaps,
                around \in {<<>>, <<"t">>} :
                /\ markup = [forest |-> <<e>>, gap |-> gap]
                /\ input = around \o ElementSource(e, gap) \o around
                /\ position = Len(around)

CallHtmlParse ==
    /\ pc = "html_parse"
    /\ call' = [fn |-> "html_parse"]
    /\ result' = html_parse(input)
    /\ position' = result'.pos
    /\ pc' = "returned"
    /\ UNCHANGED <<input, selector, selectors, declarations, rules, outcome, error,
                   stylesheet, root, styled, markup>>

CallParseElement ==
    /\ pc = "parse_element"
    /\ call' = [fn |-> "parse_element", at |-> position]
    /\ result' = parse_element(input, position)
    /\ position' = result'.pos
    /\ pc' = "returned"
    /\ UNCHANGED <<input, selector, selectors, declarations, rules, outcome, error,
                   stylesheet, root, styled, markup>>

HtmlNext ==
    \/ CallHtmlParse
    \/ CallParseElement

HtmlSpec == HtmlInit /\ [][HtmlNext]_vars

(***************************************************************************)
(* The vocabulary of the properties                                        *)
(***************************************************************************)
\* style_tree returned a tree
Styled == pc = "styled" /\ styled.tag = "Ok"

RECURSIVE StyledNodes(_)
StyledNodes(sn) ==
    {sn} \cup UNION {StyledNodes(sn.children[i]) : i \in 1..Len(sn.children)}

RECURSIVE NodeAt(_, _)
NodeAt(n, path) ==
    IF path = <<>> THEN n ELSE NodeAt(n.children[path[1]], Tail(path))

\* the styled nodes of the returned tree that refer to an element
StyledElements ==
    {sn \in StyledNodes(styled.val) : NodeAt(root, sn.node).node_type.kind = "Element"}

ElementOf(sn) == NodeAt(root, sn.node).node_type

\* (id, class, type) compared lexicographically
LexLess(a, b) ==
    \E i \in 1..3 : a[i] < b[i] /\ \A j \in 1..(i - 1) : a[j] = b[j]

\* the selectors of the rule that match the element
MatchingSelectors(e, rule) ==
    {i \in 1..Len(rule.selectors) : matches(e, rule.selectors[i])}

\* the highest specificity among the selectors of the rule that match
BestSpecificity(e, rule) ==
    LET found == {specificity(rule.selectors[i]) : i \in MatchingSelectors(e, rule)}
    IN CHOOSE x \in found : \A y \in found : ~LexLess(x, y)

Declares(rule, name) ==
    \E i \in 1..Len(rule.declarations) : rule.declarations[i].name = name

\* the value of the last declaration of name in the rule
LastValue(rule, name) ==
    LET at == {i \in 1..Len(rule.declarations) : rule.declarations[i].name = name}
    IN rule.declarations[CHOOSE i \in at : \A j \in at : j <= i].value

\* the rules of the stylesheet, by number, that match e and declare name
Declaring(e, name) ==
    {k \in 1..Len(stylesheet.rules) :
        /\ MatchingSelectors(e, stylesheet.rules[k]) # {}
        /\ Declares(stylesheet.rules[k], name)}

\* those of them that no other outranks
Highest(e, name) ==
    {k \in Declaring(e, name) :
        \A j \in Declaring(e, name) :
            ~LexLess(BestSpecificity(e, stylesheet.rules[k]),
                     BestSpecificity(e, stylesheet.rules[j]))}

\* the property names declared by the rules that match e
DeclaredNames(e) ==
    UNION { {r.declarations[i].name : i \in 1..Len(r.declarations)} :
              r \in {stylesheet.rules[k] : k \in {j \in 1..Len(stylesheet.rules) :
                        MatchingSelectors(e, stylesheet.rules[j]) # {}}} }

ValueOf(sn, name) == sn.specified_values[name]

(***************************************************************************)
(* C1. For every element of a styled tree and every property name that a   *)
(* matching rule declares, the map holds that name with the value declared *)
(* by a matching rule of the highest effective specificity among the       *)
(* matching rules that declare it, wherever that rule stands.              *)
(***************************************************************************)
C1_HighestSpecificityWins ==
    Styled =>
        \A sn \in StyledElements :
            \A name \in DeclaredNames(ElementOf(sn)) :
                /\ name \in DOMAIN sn.specified_values
                /\ ValueOf(sn, name) \in
                       {LastValue(stylesheet.rules[k], name) :
                            k \in Highest(ElementOf(sn), name)}

\* the rule of higher specificity comes first in the stylesheet and wins
C1_Witness ==
    /\ Styled
    /\ \E sn \in StyledElements :
        \E name \in DeclaredNames(ElementOf(sn)) :
            \E k1, k2 \in Declaring(ElementOf(sn), name) :
                /\ k1 < k2
                /\ LexLess(BestSpecificity(ElementOf(sn), stylesheet.rules[k2]),
                           BestSpecificity(ElementOf(sn), stylesheet.rules[k1]))
                /\ LastValue(stylesheet.rules[k1], name)
                       # LastValue(stylesheet.rules[k2], name)
                /\ ValueOf(sn, name) = LastValue(stylesheet.rules[k1], name)

(***************************************************************************)
(* C2. When two or more matching rules of equal effective specificity      *)
(* declare a property and no matching rule of higher specificity declares  *)
(* it, the map holds the value of the one that comes latest in the         *)
(* stylesheet; the matched-rule list is the matching rules in stylesheet   *)
(* order.                                                                  *)
(***************************************************************************)
C2_LaterRuleWinsTies ==
    Styled =>
        \A sn \in StyledElements :
            LET e == ElementOf(sn)
                matched == matching_rules(e, stylesheet)
                inOrder == SelectSeq(stylesheet.rules,
                                     LAMBDA r : MatchingSelectors(e, r) # {})
            IN /\ [i \in 1..Len(matched) |-> matched[i][2]] = inOrder
               /\ \A name \in DeclaredNames(e) :
                    LET top == Highest(e, name)
                        latest == CHOOSE k \in top : \A j \in top : j <= k
                    IN Cardinality(top) >= 2 =>
                         ValueOf(sn, name) = LastValue(stylesheet.rules[latest], name)

\* two rules tie, declare different values, and the later one is held
C2_Witness ==
    /\ Styled
    /\ \E sn \in StyledElements :
        \E name \in DeclaredNames(ElementOf(sn)) :
            \E k1, k2 \in Highest(ElementOf(sn), name) :
                /\ k1 < k2
                /\ LastValue(stylesheet.rules[k1], name)
                       # LastValue(stylesheet.rules[k2], name)
                /\ ValueOf(sn, name) = LastValue(stylesheet.rules[k2], name)

(***************************************************************************)
(* C3.  The claim as written: of two matching rules that are the only ones *)
(* to declare a property, one CONTAINING a selector with an id and the     *)
(* other matching at best through class and type components, the map holds *)
(* the value of the former.  It fails when the id selector is not the one  *)
(* that matches.                                                           *)
(***************************************************************************)
HasIdSelector(rule) ==
    \E i \in 1..Len(rule.selectors) : rule.selectors[i].simple.id.some

C3_RuleContainingIdWins ==
    Styled =>
        \A sn \in StyledElements :
            \A name \in DeclaredNames(ElementOf(sn)) :
                \A k1, k2 \in Declaring(ElementOf(sn), name) :
                    ( /\ Declaring(ElementOf(sn), name) = {k1, k2}
                      /\ HasIdSelector(stylesheet.rules[k1])
                      /\ BestSpecificity(ElementOf(sn), stylesheet.rules[k2])[1] = 0 )
                    => ValueOf(sn, name) = LastValue(stylesheet.rules[k1], name)

(***************************************************************************)
(* C3, amended.  Of two matching rules that declare a property, one        *)
(* matching THROUGH a selector with an id (the first of its selectors that *)
(* matches has one) and the other matching at best through class and type  *)
(* components: the map holds the value of a rule matched through an id     *)
(* selector, and the value of the former when those two are the only       *)
(* matching rules that declare the property, whichever comes first.        *)
(***************************************************************************)
MatchedThroughId(e, rule) ==
    /\ MatchingSelectors(e, rule) # {}
    /\ LET first == CHOOSE i \in MatchingSelectors(e, rule) :
                        \A j \in MatchingSelectors(e, rule) : i <= j
       IN rule.selectors[first].simple.id.some

C3_RuleMatchedThroughIdWins ==
    Styled =>
        \A sn \in StyledElements :
            \A name \in DeclaredNames(ElementOf(sn)) :
                \A k1, k2 \in Declaring(ElementOf(sn), name) :
                    ( /\ MatchedThroughId(ElementOf(sn), stylesheet.rules[k1])
                      /\ BestSpecificity(ElementOf(sn), stylesheet.rules[k2])[1] = 0 )
                    => /\ ValueOf(sn, name) \in
                              {LastValue(stylesheet.rules[k], name) :
                                  k \in {j \in Declaring(ElementOf(sn), name) :
                                            MatchedThroughId(ElementOf(sn),
                                                             stylesheet.rules[j])}}
                       /\ Declaring(ElementOf(sn), name) = {k1, k2}
                            => ValueOf(sn, name) = LastValue(stylesheet.rules[k1], name)

\* the rule matched through an id selector comes first and wins
C3_Witness ==
    /\ Styled
    /\ \E sn \in StyledElements :
        \E name \in DeclaredNames(ElementOf(sn)) :
            \E k1, k2 \in Declaring(ElementOf(sn), name) :
                /\ k1 < k2
                /\ MatchedThroughId(ElementOf(sn), stylesheet.rules[k1])
                /\ BestSpecificity(ElementOf(sn), stylesheet.rules[k2])[1] = 0
                /\ LastValue(stylesheet.rules[k1], name)
                       # LastValue(stylesheet.rules[k2], name)
                /\ ValueOf(sn, name) = LastValue(stylesheet.rules[k1], name)

(***************************************************************************)
(* C4. For every rule of the parsed stylesheet and every element of the    *)
(* styled document, match_rule records the specificity of the first        *)
(* selector, in stored order, that matches, which is the highest           *)
(* specificity among the selectors that match; a rule with no matching     *)
(* selector gives no entry of the matched-rule list.                       *)
(***************************************************************************)
C4_FirstMatchIsBestMatch ==
    Styled =>
        \A sn \in StyledElements :
            LET e == ElementOf(sn) IN
            /\ \A k \in 1..Len(stylesheet.rules) :
                 LET rule == stylesheet.rules[k] IN
                 IF MatchingSelectors(e, rule) = {}
                 THEN match_rule(e, rule) = None
                 ELSE match_rule(e, rule) = Some(<<BestSpecificity(e, rule), rule>>)
            /\ Len(matching_rules(e, stylesheet)) =
                 Cardinality({k \in 1..Len(stylesheet.rules) :
                                 MatchingSelectors(e, stylesheet.rules[k]) # {}})

\* a <p> with an id against one rule whose selectors, in source order
\* "p, #i", both match it, and against another rule that does not match
C4_Witness ==
    /\ Styled
    /\ \E sn \in StyledElements :
        \E k1, k2 \in 1..Len(stylesheet.rules) :
            /\ Cardinality({specificity(stylesheet.rules[k1].selectors[i]) :
                   i \in MatchingSelectors(ElementOf(sn), stylesheet.rules[k1])}) >= 2
            /\ match_rule(ElementOf(sn), stylesheet.rules[k1]).v[1] = <<1, 0, 0>>
            /\ match_rule(ElementOf(sn), stylesheet.rules[k2]) = None

(***************************************************************************)
(* C5. When parse_selectors leaves its loop, the selectors it stores are   *)
(* the selectors read, in source order, rearranged by a permutation that   *)
(* puts them in non-increasing specificity and keeps the source order of   *)
(* those of equal specificity; the rule pushed holds them as stored.       *)
(***************************************************************************)
IsStableDescending(source, stored) ==
    /\ Len(stored) = Len(source)
    /\ \E perm \in [1..Len(source) -> 1..Len(source)] :
        /\ \A i, j \in 1..Len(source) : i # j => perm[i] # perm[j]
        /\ \A i \in 1..Len(source) : stored[i] = source[perm[i]]
        /\ \A i, j \in 1..Len(source) :
             i < j =>
               /\ ~LexLess(specificity(stored[i]), specificity(stored[j]))
               /\ specificity(stored[i]) = specificity(stored[j]) => perm[i] < perm[j]

C5_SelectorsStableDescending ==
    [][ /\ (pc = "parse_selectors" /\ pc' = "parse_declarations")
            => IsStableDescending(selectors, selectors')
        /\ (pc = "parse_declaration" /\ pc' = "parse_rules")
            => rules'[Len(rules')].selectors = selectors ]_vars

\* "b,#i,p" is stored as #i, b, p
C5_Witness ==
    /\ pc = "parse_declarations"
    /\ input = <<"b", ",", "#", "i", ",", "p", "{", "}">>
    /\ [i \in 1..Len(selectors) |-> specificity(selectors[i])]
           = << <<1, 0, 0>>, <<0, 0, 1>>, <<0, 0, 1>> >>
    /\ selectors[2].simple.tag_name = Some(<<"b">>)
    /\ selectors[3].simple.tag_name = Some(<<"p">>)

(***************************************************************************)
(* C6. The specificity of every selector the parser has just read is       *)
(* (1 if its text holds a '#' else 0, the number of '.' of its text, 1 if  *)
(* its text holds a tag identifier else 0): a '*' sets no tag and counts   *)
(* for nothing; and the order in which the selectors are stored is the     *)
(* lexicographic order of these triples, the id count first.               *)
(***************************************************************************)
SelectorChars == valid_identifier_char \cup {"#", ".", "*"}

\* the text of the selector that ends at byte offset p
SelectorTextAt(in, p) ==
    LET start == CHOOSE a \in 0..p :
                    /\ \A i \in (a + 1)..p : in[i] \in SelectorChars
                    /\ a = 0 \/ in[a] \notin SelectorChars
    IN SubSeq(in, start + 1, p)

TextSpecificity(t) ==
    << IF \E i \in 1..Len(t) : t[i] = "#" THEN 1 ELSE 0,
       Cardinality({i \in 1..Len(t) : t[i] = "."}),
       IF \E i \in 1..Len(t) :
             t[i] \in valid_identifier_char /\ (i = 1 \/ t[i - 1] = "*")
       THEN 1 ELSE 0 >>

C6_SpecificityCounts ==
    /\ pc = "parse_selectors" =>
         LET last == selectors[Len(selectors)]
             t == SelectorTextAt(input, position)
         IN /\ specificity(last) = TextSpecificity(t)
            /\ specificity(last)[1] \in {0, 1}
            /\ specificity(last)[3] \in {0, 1}
            /\ (\A i \in 1..Len(t) : t[i] = "*") =>
                 ~last.simple.tag_name.some /\ specificity(last) = <<0, 0, 0>>
    /\ pc = "parse_declarations" =>
         \A i, j \in 1..Len(selectors) :
            i < j => ~LexLess(specificity(selectors[i]), specificity(selectors[j]))

\* an id selector is stored before a selector of two classes, and a '*'
\* selector with specificity (0,0,0) is stored too
C6_Witness ==
    /\ pc = "parse_declarations"
    /\ \E i, j, k \in 1..Len(selectors) :
        /\ i < j
        /\ specificity(selectors[i]) = <<1, 0, 0>>
        /\ specificity(selectors[j]) = <<0, 2, 0>>
        /\ specificity(selectors[k]) = <<0, 0, 0>>
    /\ \E a \in 1..Len(input) : input[a] = "*"

(***************************************************************************)
(* C7. A simple selector matches an element exactly when its tag name, if  *)
(* any, is the element's; its id, if any, is the value of the element's id *)
(* attribute; and each of its classes is in the element's class set.  So   *)
(* the names of an element's map are the names declared by the rules that  *)
(* have such a selector.                                                   *)
(***************************************************************************)
MatchesByDefinition(e, sel) ==
    /\ ~sel.tag_name.some \/ sel.tag_name.v = e.tag_name
    /\ ~sel.id.some \/ ("id" \in DOMAIN e.attributes /\ e.attributes["id"] = sel.id.v)
    /\ \A i \in 1..Len(sel.class) : sel.class[i] \in classes(e)

C7_MatchesExactly ==
    Styled =>
        \A sn \in StyledElements :
            LET e == ElementOf(sn) IN
            /\ \A k \in 1..Len(stylesheet.rules) :
                 \A i \in 1..Len(stylesheet.rules[k].selectors) :
                    LET sel == stylesheet.rules[k].selectors[i].simple IN
                    /\ matches_simple_selector(e, sel) = MatchesByDefinition(e, sel)
                    /\ (~sel.tag_name.some /\ ~sel.id.some /\ sel.class = <<>>)
                         => matches_simple_selector(e, sel)
            /\ DOMAIN sn.specified_values =
                 UNION { {r.declarations[i].name : i \in 1..Len(r.declarations)} :
                           r \in {stylesheet.rules[k] :
                                    k \in {j \in 1..Len(stylesheet.rules) :
                                       \E i \in 1..Len(stylesheet.rules[j].selectors) :
                                          MatchesByDefinition(e,
                                             stylesheet.rules[j].selectors[i].simple)}} }

\* an element with a class and no id: a selector of a tag and a class
\* matches it, a selector of an id does not, and the map holds the names of
\* the first rule only
C7_Witness ==
    /\ Styled
    /\ \E sn \in StyledElements :
        \E k1, k2 \in 1..Len(stylesheet.rules) :
            /\ "id" \notin DOMAIN ElementOf(sn).attributes
            /\ \E i \in 1..Len(stylesheet.rules[k1].selectors) :
                LET sel == stylesheet.rules[k1].selectors[i].simple IN
                /\ sel.tag_name.some /\ sel.class # <<>>
                /\ matches_simple_selector(ElementOf(sn), sel)
            /\ \A i \in 1..Len(stylesheet.rules[k2].selectors) :
                LET sel == stylesheet.rules[k2].selectors[i].simple IN
                /\ sel.id.some /\ ~sel.tag_name.some /\ sel.class = <<>>
                /\ ~matches_simple_selector(ElementOf(sn), sel)
            /\ DOMAIN sn.specified_values =
                 {stylesheet.rules[k1].declarations[i].name :
                     i \in 1..Len(stylesheet.rules[k1].declarations)}
            /\ sn.specified_values # EmptyMap

(***************************************************************************)
(* C8.  The claim: style_tree on a document that holds a comment node      *)
(* completes and returns a tree.  The code reaches todo!() instead.        *)
(***************************************************************************)
RECURSIVE HasComment(_)
HasComment(n) ==
    \/ n.node_type.kind = "Comment"
    \/ \E i \in 1..Len(n.children) : HasComment(n.children[i])

C8_CommentDoesNotAbort ==
    (pc = "styled" /\ HasComment(root)) => styled.tag = "Ok"

(***************************************************************************)
(* C9. In the tree style_tree returns, every node refers to the document   *)
(* node at the same place: the root to the root, and the i-th child of a   *)
(* styled node to the i-th child of the node it refers to, with as many    *)
(* children as that node has.                                              *)
(***************************************************************************)
RECURSIVE Mirrors(_, _)
Mirrors(sn, path) ==
    /\ sn.node = path
    /\ Len(sn.children) = Len(NodeAt(root, path).children)
    /\ \A i \in 1..Len(sn.children) : Mirrors(sn.children[i], Append(path, i))

C9_Isomorphic == Styled => Mirrors(styled.val, <<>>)

\* a root with an element child, which has a child of its own, and then a
\* text child
C9_Witness ==
    /\ Styled
    /\ Len(root.children) = 2
    /\ root.children[1].node_type.kind = "Element"
    /\ Len(root.children[1].children) = 1
    /\ root.children[2].node_type.kind = "Text"
    /\ Len(styled.val.children) = 2
    /\ Len(styled.val.children[1].children) = 1

(***************************************************************************)
(* C10.  The claim: css::parse ends every failure by returning an error    *)
(* value, and no input makes it panic.  The code unwraps and asserts.      *)
(***************************************************************************)
C10_FailureIsAnErrorValue == pc = "done" => outcome \in {"ok", "error"}

(***************************************************************************)
(* C11. For an input in which a rule has a declaration with no ':' or no   *)
(* ';', a block with no '}', a length whose unit is not px, or a character *)
(* after a selector that is neither ',' nor '{', css::parse yields no      *)
(* stylesheet at any point: not an empty one, and not one of the           *)
(* well-formed rules before or after the fault.                            *)
(***************************************************************************)
C11_FaultYieldsNoStylesheet ==
    input \in FaultySources =>
        /\ outcome # "ok"
        /\ stylesheet = NoStylesheet
        /\ pc # "styled"

\* the parse ends on a foreign unit after it has read a well-formed rule,
\* with another well-formed rule still ahead
C11_Witness ==
    /\ input = WellFormedRule \o <<"p", "{", "c", ":", "1", "e", "m", ";", "}">>
                    \o WellFormedRule
    /\ pc = "done"
    /\ outcome = "panic"
    /\ error = "unrecognized unit"
    /\ Len(rules) = 1
    /\ position < Len(input) - Len(WellFormedRule)

(***************************************************************************)
(* C12. In every tree style_tree returns, the map of an element holds a    *)
(* name only if a rule with a selector that matches the element declares   *)
(* that name, so an element no rule matches has an empty map; and the map  *)
(* of a text node is empty under every stylesheet.                         *)
(***************************************************************************)
C12_OnlyDeclaredNames ==
    Styled =>
        \A sn \in StyledNodes(styled.val) :
            LET n == NodeAt(root, sn.node).node_type IN
            IF n.kind = "Element"
            THEN \A name \in DOMAIN sn.specified_values :
                    \E k \in 1..Len(stylesheet.rules) :
                        /\ Declares(stylesheet.rules[k], name)
                        /\ \E i \in 1..Len(stylesheet.rules[k].selectors) :
                              MatchesByDefinition(n,
                                  stylesheet.rules[k].selectors[i].simple)
            ELSE sn.specified_values = EmptyMap

\* under a stylesheet of two rules: an element with the name of one rule, an
\* element of another tag with the name of the other rule only, and a text
\* node with an empty map
C12_Witness ==
    /\ Styled
    /\ Len(stylesheet.rules) = 2
    /\ \E s1, s2, s3 \in StyledNodes(styled.val) :
          /\ NodeAt(root, s1.node).node_type.kind = "Element"
          /\ DOMAIN s1.specified_values = {<<"c">>}
          /\ NodeAt(root, s2.node).node_type.kind = "Element"
          /\ DOMAIN s2.specified_values = {<<"d">>}
          /\ NodeAt(root, s3.node).node_type.kind = "Text"
          /\ s3.specified_values = EmptyMap

(***************************************************************************)
(* C13. The map of a styled element, and so value(name), depends on the    *)
(* element's own tag name and attributes and on the stylesheet only: it is *)
(* the map the same element gets as a document of its own, and the map of  *)
(* every other node of the tree with that tag name and those attributes;   *)
(* and a name that no rule matching the element declares is absent from    *)
(* it, value returning none, whatever the maps of its ancestors hold.      *)
(***************************************************************************)
\* the styled nodes below sn
Descendants(sn) == StyledNodes(sn) \ {sn}

C13_NoInheritance ==
    Styled =>
        \A sn \in StyledElements :
            /\ sn.specified_values =
                   style_tree(Node(<<>>, ElementOf(sn)), <<>>, stylesheet)
                       .val.specified_values
            /\ \A other \in StyledElements :
                   ElementOf(other) = ElementOf(sn)
                       => /\ other.specified_values = sn.specified_values
                          /\ \A name \in DOMAIN sn.specified_values :
                                value(other, name) = value(sn, name)
            /\ \A below \in Descendants(sn) \cap StyledElements :
                   \A name \in DOMAIN sn.specified_values :
                       name \notin DeclaredNames(ElementOf(below))
                           => value(below, name) = None

\* the same element at two depths of one tree with equal maps, the deeper
\* one below an element whose map holds a name that its own map lacks
C13_Witness ==
    /\ Styled
    /\ \E above, deep, shallow \in StyledElements :
          /\ deep \in Descendants(above)
          /\ ElementOf(shallow) = ElementOf(deep)
          /\ Len(shallow.node) < Len(deep.node)
          /\ deep.specified_values # EmptyMap
          /\ deep.specified_values = shallow.specified_values
          /\ \E name \in DOMAIN above.specified_values :
                value(deep, name) = None

(***************************************************************************)
(* C14. For every element of a styled tree and every name a matching rule  *)
(* declares, the map holds the value of the last declaration of that name  *)
(* in the winning rule, which is the latest of the matching rules of       *)
(* highest specificity that declare it: when that rule declares the name   *)
(* more than once, no earlier declaration of it survives.                  *)
(***************************************************************************)
\* the winning rule for name on e, by number
Winner(e, name) ==
    CHOOSE k \in Highest(e, name) : \A j \in Highest(e, name) : j <= k

\* the places of the declarations of name in the rule
DeclarationsOf(rule, name) ==
    {i \in 1..Len(rule.declarations) : rule.declarations[i].name = name}

C14_LastDeclarationWins ==
    Styled =>
        \A sn \in StyledElements :
            \A name \in DeclaredNames(ElementOf(sn)) :
                LET rule == stylesheet.rules[Winner(ElementOf(sn), name)]
                    last == CHOOSE i \in DeclarationsOf(rule, name) :
                                \A j \in DeclarationsOf(rule, name) : j <= i
                IN value(sn, name) = Some(rule.declarations[last].value)

\* the winning rule, with another matching rule that declares the name
\* before it and one after it, declares the name twice or more with a
\* last value that differs from the earlier ones
C14_Witness ==
    /\ Styled
    /\ Len(stylesheet.rules) = 3
    /\ \E sn \in StyledElements :
          LET e == ElementOf(sn)
              rule == stylesheet.rules[2]
              at == DeclarationsOf(rule, <<"c">>)
          IN /\ Declaring(e, <<"c">>) = {1, 2, 3}
             /\ Winner(e, <<"c">>) = 2
             /\ Cardinality(at) >= 2
             /\ \E i, j \in at :
                   /\ i < j
                   /\ \A k \in at : k <= j
                   /\ rule.declarations[i].value # rule.declarations[j].value
                   /\ value(sn, <<"c">>) = Some(rule.declarations[j].value)

(***************************************************************************)
(* C15. display() returns Block exactly when the map holds "display" with  *)
(* the keyword "block", None exactly when it holds "display" with the      *)
(* keyword "none", and Inline in every other case: the name absent, any    *)
(* other keyword, a keyword in another letter case, a length or a colour.  *)
(***************************************************************************)
HoldsDisplayKeyword(m, k) == DisplayName \in DOMAIN m /\ m[DisplayName] = Keyword(k)

C15_DisplayByExactKeyword ==
    (pc = "returned" /\ call.fn = "display") =>
        LET m == styled.val.specified_values IN
        /\ result.val \in {Block, DisplayNone, Inline}
        /\ result.val = Block <=> HoldsDisplayKeyword(m, <<"b", "l", "o", "c", "k">>)
        /\ result.val = DisplayNone <=> HoldsDisplayKeyword(m, <<"n", "o", "n", "e">>)

\* display() returned Inline for the keyword "Block"
C15_Witness ==
    /\ pc = "returned"
    /\ call.fn = "display"
    /\ HoldsDisplayKeyword(styled.val.specified_values, <<"B", "l", "o", "c", "k">>)
    /\ result.val = Inline

(***************************************************************************)
(* C16. lookup(name, fallback_name, default) returns the map's value for   *)
(* name when the map holds name, also when it holds fallback_name;         *)
(* otherwise the map's value for fallback_name when the map holds that;    *)
(* otherwise a value equal to default.  It always returns a value, and the *)
(* call leaves the node and its map as they were.                          *)
(***************************************************************************)
LookupReturnsByPrecedence ==
    (pc = "returned" /\ call.fn = "lookup") =>
        LET m == styled.val.specified_values IN
        /\ result.tag = "Ok"
        /\ result.val.type \in {"Keyword", "Length", "ColorValue"}
        /\ call.name \in DOMAIN m => result.val = m[call.name]
        /\ (call.name \notin DOMAIN m /\ call.fallback_name \in DOMAIN m)
              => result.val = m[call.fallback_name]
        /\ (call.name \notin DOMAIN m /\ call.fallback_name \notin DOMAIN m)
              => result.val = call.default

LookupKeepsTheNode == (call'.fn = "lookup") => styled' = styled

C16_LookupPrecedence == []LookupReturnsByPrecedence /\ [][LookupKeepsTheNode]_vars

\* lookup("margin", "margin-left", Length(0, Px)) returned Length(2, Px) on
\* a map that holds margin-left only
C16_Witness ==
    /\ pc = "returned"
    /\ call = [fn |-> "lookup", name |-> MarginName,
               fallback_name |-> MarginLeftName, default |-> Length(<<0, 0>>, "Px")]
    /\ DOMAIN styled.val.specified_values = {MarginLeftName}
    /\ result.val = Length(<<2, 0>>, "Px")

(***************************************************************************)
(* C17.  The claim: parse_color on '#' and six hexadecimal digits returns  *)
(* the colour whose r, g and b are the values of the first, second and     *)
(* third pair of digits and whose a is 255; and when one of the six        *)
(* characters after the '#' is not a hexadecimal digit, or fewer than six  *)
(* follow it, parse_color returns no colour.  The code takes a pair made   *)
(* of '+' and one digit for a number: "#+1+2+3" is the colour (1, 2, 3).   *)
(***************************************************************************)
\* the characters of the input after the '#' at the call's position
AfterHash == SubSeq(input, call.position + 2, Len(input))

SixHexDigits(s) == Len(s) >= 6 /\ \A i \in 1..6 : s[i] \in HexDigits

PairValue(s, i) == 16 * DigitVal(s[i]) + DigitVal(s[i + 1])

C17_ColorNeedsSixHexDigits ==
    (pc = "returned" /\ call.fn = "parse_color") =>
        IF SixHexDigits(AfterHash)
        THEN /\ result.tag = "Ok"
             /\ result.val = ColorValue(PairValue(AfterHash, 1), PairValue(AfterHash, 3),
                                         PairValue(AfterHash, 5), 255)
        ELSE result.tag # "Ok"

(***************************************************************************)
(* C18. parse_unit returns the pixel unit when the identifier at the       *)
(* position is "px" in any mix of upper and lower case, and the error      *)
(* "unrecognized unit" for every other identifier, the empty one that a    *)
(* number with no unit leaves included.                                    *)
(***************************************************************************)
\* the identifier at the call's position: the longest run of identifier
\* characters that starts there
UnitIdentifier ==
    LET run == {n \in 0..(Len(input) - call.position) :
                   \A i \in 1..n : input[call.position + i] \in valid_identifier_char}
        longest == CHOOSE n \in run : \A k \in run : k <= n
    IN SubSeq(input, call.position + 1, call.position + longest)

PxSpellings == {<<"p", "x">>, <<"P", "x">>, <<"p", "X">>, <<"P", "X">>}

C18_OnlyPxIsAUnit ==
    (pc = "returned" /\ call.fn = "parse_unit") =>
        IF UnitIdentifier \in PxSpellings
        THEN result.tag = "Ok" /\ result.val = "Px"
        ELSE result.tag = "Err" /\ result.msg = "unrecognized unit"

\* parse_unit returned the pixel unit for "pX" after a number
C18_Witness ==
    /\ pc = "returned"
    /\ call = [fn |-> "parse_unit", position |-> 2]
    /\ UnitIdentifier = <<"p", "X">>
    /\ result.tag = "Ok"
    /\ result.val = "Px"
    /\ position = 4

(***************************************************************************)
(* C19. A stylesheet text that parses, with a run of whitespace put into   *)
(* any of the gaps between two adjacent lexical elements (before the first *)
(* rule, between the elements of a selector list, around '{', ':', ';' and *)
(* '}', after the last rule), parses too, and to the stylesheet of the     *)
(* text with no whitespace.                                                *)
(***************************************************************************)
\* the stylesheets of the two texts
ListStylesheet ==
    Stylesheet(<< Rule(<< Simple(SimpleSelector(None, Some(<<"i">>), <<>>)),
                         Simple(SimpleSelector(Some(<<"p">>), None, <<>>)) >>,
                      << Declaration(<<"c">>, Keyword(<<"r">>)),
                         Declaration(<<"d">>, Length(<<1, 0>>, "Px")) >>) >>)
ColorStylesheet ==
    Stylesheet(<< Rule(<< Simple(SimpleSelector(Some(<<"b">>), None, <<>>)) >>, <<>>),
                  Rule(<< Simple(SimpleSelector(None, None, << <<"c">> >>)) >>,
                      << Declaration(<<"c">>, ColorValue(0, 255, 127, 255)) >>) >>)

ParsesTo(sheet) ==
    /\ outcome # "panic"
    /\ pc \in {"done", "styled"} => outcome = "ok" /\ stylesheet = sheet

C19_WhitespaceIsSkipped ==
    /\ input \in SpacedListSources => ParsesTo(ListStylesheet)
    /\ input \in SpacedColorSources => ParsesTo(ColorStylesheet)

\* the text with a newline and a tab in every gap has been parsed
C19_Witness ==
    /\ input = EveryGap(ListElements, <<"\n", "\t">>)
    /\ Len(input) = Len(EveryGap(ListElements, <<>>)) + 2 * (Len(ListElements) + 1)
    /\ pc = "done"
    /\ outcome = "ok"
    /\ stylesheet = ListStylesheet

(***************************************************************************)
(* C20.  The claim: classes() returns the set of the non-empty maximal     *)
(* runs of non-whitespace characters of the class attribute, whatever      *)
(* whitespace stands between, before or after them, and the empty set      *)
(* when there is no class attribute; so a selector of one class matches    *)
(* the element exactly when the class is one of those runs.  The code      *)
(* splits at each single space: a tab or a newline separates nothing, and  *)
(* two spaces in a row, a leading or a trailing space, or an empty         *)
(* attribute put the empty string into the set.                            *)
(***************************************************************************)
\* the non-empty maximal runs of non-whitespace characters of s
WhitespaceRuns(s) ==
    { SubSeq(s, a, b) :
        <<a, b>> \in { ab \in (1..Len(s)) \X (1..Len(s)) :
                        /\ ab[1] <= ab[2]
                        /\ \A i \in ab[1]..ab[2] : s[i] \notin is_whitespace
                        /\ ab[1] = 1 \/ s[ab[1] - 1] \in is_whitespace
                        /\ ab[2] = Len(s) \/ s[ab[2] + 1] \in is_whitespace } }

ClassRuns(e) ==
    IF "class" \in DOMAIN e.attributes THEN WhitespaceRuns(e.attributes["class"])
    ELSE {}

C20_ClassesAreWhitespaceRuns ==
    (pc = "returned" /\ call.fn = "classes") =>
        LET e == root.node_type IN
        /\ result.val = ClassRuns(e)
        /\ \A class \in Strings(ClassChars \ is_whitespace, MaxClass) :
              matches_simple_selector(e, SimpleSelector(None, None, <<class>>))
                  <=> class \in ClassRuns(e)

(***************************************************************************)
(* C21: css::parse on a well-formed stylesheet of n rules returns exactly  *)
(* n rules in source order, and each rule holds every declaration of its   *)
(* block in source order, duplicates kept; the source                      *)
(* "body { background-color: red; }" gives one rule with one selector of   *)
(* tag "body" and one declaration "background-color" with keyword "red".   *)
(* What a source writes is read off its text: a rule ends at each '}', its *)
(* selector list ends at '{', a declaration ends at each ';' and its name  *)
(* ends at ':'.                                                            *)
(***************************************************************************)
\* the pieces of s between consecutive occurrences of sep, in order
RECURSIVE Pieces(_, _)
Pieces(s, sep) ==
    IF \A i \in 1..Len(s) : s[i] # sep THEN <<s>>
    ELSE LET i == CHOOSE i \in 1..Len(s) :
                      s[i] = sep /\ \A j \in 1..(i - 1) : s[j] # sep
         IN <<SubSeq(s, 1, i - 1)>> \o Pieces(SubSeq(s, i + 1, Len(s)), sep)

\* s without its whitespace
Trimmed(s) == SelectSeq(s, LAMBDA c : c \notin is_whitespace)

\* the texts of the rules of a source, each up to its '}'
WrittenRules(source) ==
    LET p == Pieces(source, "}") IN [k \in 1..(Len(p) - 1) |-> p[k]]

\* the texts of the selectors of a rule
WrittenSelectors(ruleText) == Pieces(Pieces(ruleText, "{")[1], ",")

\* the <<name, value>> texts of the declarations of a rule
WrittenDeclarations(ruleText) ==
    LET d == Pieces(Pieces(ruleText, "{")[2], ";")
    IN [j \in 1..(Len(d) - 1) |->
            <<Trimmed(Pieces(d[j], ":")[1]), Trimmed(Pieces(d[j], ":")[2])>>]

\* the value v is what the text t writes: a length when t starts with a
\* digit, a colour when it starts with '#', the keyword t otherwise
Writes(t, v) ==
    IF t[1] \in Digits THEN v.type = "Length"
    ELSE IF t[1] = "#" THEN v.type = "ColorValue"
    ELSE v = Keyword(t)

WellFormedSources ==
    CascadeSources \cup SelectorSources \cup SingleSources \cup TreeSources
        \cup RepeatedSources \cup SpacedListSources \cup SpacedColorSources
        \cup {BodyRule}

BodyStylesheet ==
    Stylesheet(<<Rule(<<Simple(SimpleSelector(Some(<<"b", "o", "d", "y">>), None, <<>>))>>,
                      <<Declaration(<<"b", "a", "c", "k", "g", "r", "o", "u", "n", "d",
                                      "-", "c", "o", "l", "o", "r">>,
                                    Keyword(<<"r", "e", "d">>))>>)>>)

C21_RulesInSourceOrder ==
    (pc \in {"done", "styled"} /\ input \in WellFormedSources) =>
        /\ outcome = "ok"
        /\ Len(stylesheet.rules) = Len(WrittenRules(input))
        /\ \A k \in 1..Len(stylesheet.rules) :
              LET rule == stylesheet.rules[k]
                  written == WrittenRules(input)[k]
                  decls == WrittenDeclarations(written)
              IN /\ Len(rule.selectors) = Len(WrittenSelectors(written))
                 /\ Len(rule.declarations) = Len(decls)
                 /\ \A j \in 1..Len(decls) :
                       /\ rule.declarations[j].name = decls[j][1]
                       /\ Writes(decls[j][2], rule.declarations[j].value)
        /\ input = BodyRule => stylesheet = BodyStylesheet

\* three rules read in order, the second with the declarations c:a, c:b and
\* c:a again
C21_Witness ==
    /\ pc = "done"
    /\ outcome = "ok"
    /\ input = <<"#", "i", "{", "c", ":", "z", ";", "}",
                 "p", "{", "c", ":", "a", ";", "c", ":", "b", ";", "c", ":", "a", ";", "}",
                 "p", "{", "c", ":", "w", ";", "}">>
    /\ Len(stylesheet.rules) = 3
    /\ stylesheet.rules[1].declarations = <<Declaration(<<"c">>, Keyword(<<"z">>))>>
    /\ stylesheet.rules[2].declarations =
          <<Declaration(<<"c">>, Keyword(<<"a">>)), Declaration(<<"c">>, Keyword(<<"b">>)),
            Declaration(<<"c">>, Keyword(<<"a">>))>>
    /\ stylesheet.rules[3].declarations = <<Declaration(<<"c">>, Keyword(<<"w">>))>>

(***************************************************************************)
(* C22: consume_char on a parser whose position is at the end of the       *)
(* input returns an error and leaves the position unchanged, however many  *)
(* times it is called; at any earlier position it returns the character    *)
(* at the position and advances the position by exactly that character's   *)
(* byte length.  The characters of a text are read off its bytes: a        *)
(* character starts at every byte that is not a continuation byte and      *)
(* ends where the next one starts.                                         *)
(***************************************************************************)
\* the byte offsets at which a character of the text starts
CharacterStarts(t) == {p \in 0..(Len(t) - 1) : t[p + 1] # ContByte}

\* the offset at which the character that starts at p ends
CharacterEnd(t, p) ==
    CHOOSE q \in (p + 1)..Len(t) :
        /\ q = Len(t) \/ q \in CharacterStarts(t)
        /\ \A m \in (p + 1)..(q - 1) : m \notin CharacterStarts(t)

\* the character that starts at p
CharacterFrom(t, p) ==
    IF CharacterEnd(t, p) - p = 1 THEN t[p + 1] ELSE NonAscii

C22_ConsumeCharAdvancesOneCharacter ==
    call.fn = "consume_char" =>
        IF call.at = Len(input)
        THEN result.tag = "Err" /\ position = call.at
        ELSE /\ call.at \in CharacterStarts(input)
             /\ result.tag = "Ok"
             /\ result.val = CharacterFrom(input, call.at)
             /\ position = CharacterEnd(input, call.at)

\* the two-byte character consumed, then an error at the end of the input,
\* then consume_char called again there
C22_Witness ==
    /\ input = <<"a", LeadByte, ContByte>>
    /\ call.fn = "consume_char"
    /\ call.at = 3
    /\ call.before = [fn |-> "consume_char", condition |-> {}, at |-> 3]
    /\ result.tag = "Err"
    /\ position = 3

(***************************************************************************)
(* C23: consume_while(cond) never returns an error: it consumes exactly    *)
(* the longest run of characters starting at the current position that     *)
(* all satisfy cond, returns them in order, and leaves the position at the *)
(* first character that fails cond or at the end of the input; called      *)
(* again with the same cond at that position it returns the empty string   *)
(* and does not move the position.                                         *)
(***************************************************************************)
\* the characters of the text from offset p to offset q, in order
RECURSIVE CharactersBetween(_, _, _)
CharactersBetween(t, p, q) ==
    IF p >= q THEN <<>>
    ELSE <<CharacterFrom(t, p)>> \o CharactersBetween(t, CharacterEnd(t, p), q)

\* the offset at which the longest run of characters from p that all
\* satisfy cond ends
RunEnd(t, p, cond) ==
    CHOOSE q \in p..Len(t) :
        /\ q = Len(t) \/ q \in CharacterStarts(t)
        /\ \A m \in CharacterStarts(t) : (p <= m /\ m < q) => CharacterFrom(t, m) \in cond
        /\ q < Len(t) => CharacterFrom(t, q) \notin cond

Lowered(name) == (CHOOSE sp \in Spellings : sp[1] = name)[2]

\* the attributes of a tag: of the attributes written with a name, the last
AttributeMap(attrs) ==
    [n \in {attrs[i][1] : i \in 1..Len(attrs)} |->
        attrs[CHOOSE i \in 1..Len(attrs) :
                /\ attrs[i][1] = n
                /\ \A j \in (i + 1)..Len(attrs) : attrs[j][1] # n][2]]

\* every element of the forest closes with the name it opens with
RECURSIVE WellFormedMarkup(_)
WellFormedMarkup(forest) ==
    \A i \in 1..Len(forest) :
        forest[i].kind = "element" =>
            /\ Lowered(forest[i].open) = Lowered(forest[i].close)
            /\ WellFormedMarkup(forest[i].children)

\* the document nodes a well-formed forest writes
RECURSIVE Document(_)
Document(forest) ==
    [i \in 1..Len(forest) |->
        IF forest[i].kind = "text"
        THEN Node(<<>>, Text(forest[i].data))
        ELSE Node(Document(forest[i].children),
                  Element(Lowered(forest[i].open), AttributeMap(forest[i].attrs)))]

C24_OneNodeOrHtmlElement ==
    (call.fn = "html_parse" /\ WellFormedMarkup(markup.forest)) =>
        /\ result.tag = "Ok"
        /\ IF Len(markup.forest) = 1
           THEN result.val = Document(markup.forest)[1]
           ELSE /\ result.val.node_type.kind = "Element"
                /\ result.val.node_type.tag_name = <<"h", "t", "m", "l">>
                /\ DOMAIN result.val.node_type.attributes = {}
                /\ result.val.children = Document(markup.forest)

\* an element and a text after it at the top level
C24_Witness ==
    /\ call.fn = "html_parse"
    /\ Len(markup.forest) = 2
    /\ markup.gap # <<>>
    /\ markup.forest[1].kind = "element"
    /\ markup.forest[1].open = <<"B">>
    /\ markup.forest[2].kind = "text"
    /\ result.tag = "Ok"
    /\ result.val.node_type.tag_name = <<"h", "t", "m", "l">>
    /\ Len(result.val.children) = 2
    /\ result.val.children[1].node_type.tag_name = <<"b">>

(***************************************************************************)
(* C25: parse_element returns the error "Opening and closing tag names do  *)
(* not match" whenever the opening and closing tag names differ after      *)
(* ASCII lower-casing, and otherwise returns an element whose tag name is  *)
(* the lower-cased opening name, whose attributes are those of the         *)
(* opening tag and whose children are the nodes parsed between the two     *)
(* tags in source order, with the position left just after the closing     *)
(* tag.  The element is one whose children are well formed.                *)
(***************************************************************************)
C25_ElementOrMismatchError ==
    (call.fn = "parse_element" /\ WellFormedMarkup(markup.forest[1].children)) =>
        LET e == markup.forest[1] IN
        IF Lowered(e.open) # Lowered(e.close)
        THEN /\ result.tag = "Err"
             /\ result.msg = "Opening and closing tag names do not match"
        ELSE /\ result.tag = "Ok"
             /\ result.val = Document(<<e>>)[1]
             /\ position = call.at + Len(ElementSource(e, markup.gap))

\* an element opened as dIv1 and closed as div1, with attributes and two
\* children, read from position 1 up to the text after it
C25_Witness ==
    /\ call.fn = "parse_element"
    /\ call.at = 1
    /\ markup.forest[1].open = <<"d", "I", "v", "1">>
    /\ markup.forest[1].close = <<"d", "i", "v", "1">>
    /\ Len(markup.forest[1].attrs) = 3
    /\ Len(markup.forest[1].children) = 2
    /\ WellFormedMarkup(markup.forest[1].children)
    /\ result.tag = "Ok"
    /\ result.val.node_type.tag_name = <<"d", "i", "v", "1">>
    /\ Len(result.val.children) = 2
    /\ position = Len(input) - 1

(***************************************************************************)
(* C26: css::parse stops on every finite input (it returns or it fails):   *)
(* every iteration of the loops of parse_rules, parse_selectors,           *)
(* parse_simple_selector and parse_declarations either advances the        *)
(* position by at least one character or leaves the loop, so no input      *)
(* makes the parser loop forever at a fixed position.                      *)
(***************************************************************************)
\* a step that goes on in a loop has advanced the position: the loop of
\* parse_simple_selector after a component, the loop of parse_declarations
\* after a declaration, the loop of parse_selectors after a ',', and the
\* loop of parse_rules after the '}' of a rule
IterationAdvances ==
    ( \/ pc = "parse_simple_selector" /\ pc' = "parse_simple_selector"
      \/ pc = "parse_declaration" /\ pc' = "parse_declaration"
      \/ pc = "parse_selectors" /\ pc' = "parse_simple_selector"
      \/ pc = "parse_declaration" /\ pc' = "parse_rules" )
        => position' > position

C26_ParseStops ==
    /\ [][IterationAdvances]_vars
    /\ <>(pc = "done" /\ outcome \in {"ok", "panic"})

\* a parse that has gone round each loop and returned
C26_Witness ==
    /\ input = <<" ", "p", " ", ",", "\n", "b", " ", "{", " ", "c", " ", ":", " ", "r",
                 " ", ";", "\t", "}", " ">>
    /\ pc = "done"
    /\ outcome = "ok"
    /\ position = Len(input)
    /\ Len(stylesheet.rules) = 1
    /\ Len(stylesheet.rules[1].selectors) = 2

(***************************************************************************)
(* C27: in every state reached while css::parse runs from position 0, the  *)
(* position satisfies 0 <= position <= byte length of the input and never  *)
(* decreases from one step to the next, including across parse_hex_pair,   *)
(* which adds 2 to the position without going through consume_char.        *)
(***************************************************************************)
PositionInBounds == 0 <= position /\ position <= Len(input)

PositionNeverDecreases == position' >= position

C27_PositionBoundedAndMonotone ==
    /\ []PositionInBounds
    /\ [][PositionNeverDecreases]_vars

\* a colour whose second pair is not hexadecimal: the panic leaves the
\* position after the two pairs parse_hex_pair has passed
C27_Witness ==
    /\ input = <<"p", "{", "c", ":", "#", "0", "0", "g", "g", "0", "0", ";", "}">>
    /\ pc = "done"
    /\ outcome = "panic"
    /\ error = "invalid digit found in string"
    /\ position = 9

(***************************************************************************)
(* C28: parse_simple_selector never returns an error and reads components  *)
(* in any order and any number up to the first character that is not '#',  *)
(* '.', '*' or an identifier character: each '#' sets the id to the        *)
(* identifier that follows, replacing an earlier id; each '.' appends the  *)
(* identifier that follows to the class list in source order; each tag     *)
(* identifier replaces an earlier tag name; a '#' or '.' followed by no    *)
(* identifier character gives the empty string as id or class, which       *)
(* still counts in the selector's specificity.                             *)
(***************************************************************************)
\* the number of bytes of t before the first that is no selector character
ComponentsEnd(t) ==
    CHOOSE e \in 0..Len(t) :
        /\ \A i \in 1..e : t[i] \in SelectorChars
        /\ e = Len(t) \/ t[e + 1] \notin SelectorChars

\* the identifier written after index i of t: the longest run of identifier
\* characters from index i + 1, empty when there is none
NameAfter(t, i) ==
    LET stop == CHOOSE j \in i..Len(t) :
                    /\ \A k \in (i + 1)..j : t[k] \in valid_identifier_char
                    /\ j = Len(t) \/ t[j + 1] \notin valid_identifier_char
    IN SubSeq(t, i + 1, stop)

\* the indices of the mark m among the components of t
MarksOf(t, m) == {i \in 1..ComponentsEnd(t) : t[i] = m}

\* the indices where a tag identifier starts: an identifier character at the
\* start or after a '*'
TagStarts(t) ==
    {i \in 1..ComponentsEnd(t) :
        t[i] \in valid_identifier_char /\ (i = 1 \/ t[i - 1] = "*")}

\* the largest index of a non-empty set of indices
LastOf(S) == CHOOSE i \in S : \A j \in S : j <= i

\* the indices of S in increasing order
Ascending(S) ==
    [k \in 1..Cardinality(S) |-> CHOOSE i \in S : Cardinality({j \in S : j <= i}) = k]

\* the selector the text t writes
WrittenSelector(t) ==
    LET dots == Ascending(MarksOf(t, "."))
    IN SimpleSelector(
           IF TagStarts(t) = {} THEN None ELSE Some(NameAfter(t, LastOf(TagStarts(t)) - 1)),
           IF MarksOf(t, "#") = {} THEN None ELSE Some(NameAfter(t, LastOf(MarksOf(t, "#")))),
           [k \in 1..Len(dots) |-> NameAfter(t, dots[k])])

C28_SelectorComponents ==
    call.fn = "parse_simple_selector" =>
        /\ result = Ok(WrittenSelector(input), ComponentsEnd(input))
        /\ position = ComponentsEnd(input)
        /\ specificity(Simple(result.val)) =
               << IF MarksOf(input, "#") = {} THEN 0 ELSE 1,
                  Cardinality(MarksOf(input, ".")),
                  IF TagStarts(input) = {} THEN 0 ELSE 1 >>

\* an id, an empty class, then an empty id that replaces the first
C28_Witness ==
    /\ call.fn = "parse_simple_selector"
    /\ input = <<"#", "a", ".", "#">>
    /\ result = Ok(SimpleSelector(None, Some(<<>>), << <<>> >>), 4)
    /\ specificity(Simple(result.val)) = <<1, 1, 0>>

====
